---- MODULE Spec2Model ----
(***************************************************************************)
(* A model of the coordination fabric of smok-client:                      *)
(*   - the order executor thread (smok/threads/executor.py) together with  *)
(*     the order model (smok/pathpoint/orders.py),                         *)
(*   - the in-memory data-point store (smok/extras/pp_database) and        *)
(*     Pathpoint.set_new_value (smok/pathpoint/pathpoint.py),              *)
(*   - the communicator's snapshot discipline                              *)
(*     (smok/threads/communicator.py) over the sample, event and           *)
(*     sensor-write stores.                                                *)
(***************************************************************************)
EXTENDS Integers, Sequences, FiniteSets, TLC

(***************************************************************************)
(* Bounds of the model                                                     *)
(***************************************************************************)
MaxSections == 2
MaxTs == 3
MaxSamples == 4
MaxSensorWrites == 1
MaxEvents == 1
MaxTid == 2
MaxOps == 2
MaxFrames == 2
MaxPayload == 1
MaxClock == 3
MaxReads == 2
MaxWrites == 1
MaxSets == 1
MaxEmitters == 2
MaxEmits == 3
MaxDrain == 2
MaxLoops == 2
MaxCalls == 2
MaxOpens == 1
MaxPeriods == 2
MaxCreated == 2
MaxPasses == 2
MaxBaobTicks == 3
MaxBaobPasses == 2
MaxDownloads == 1
MaxPredicates == 2
MaxPredPasses == 2
MaxResets == 1
MaxCatalogSyncs == 2
MaxReadyPasses == 2
MaxWaits == 1
MaxWFrames == 2
MaxSelects == 3
MaxSent == 2
MaxOccurrences == 2
MaxMacroTime == 3
MaxArchPasses == 2
MaxSetMacros == 2

\* retry(3, ResponseError) of sync_sensor_writes and of sync_events
SensorWritesRetry == 3
EventsRetry == 3

(***************************************************************************)
(* Order model: smok/pathpoint/orders.py                                   *)
(***************************************************************************)
\* AdviseLevel(enum.IntEnum)
ADVISE == 0
FORCE == 1

\* Disposition(enum.IntEnum)
JOINABLE == 0
CANNOT_JOIN == 1

AdviseLevels == {ADVISE, FORCE}
Dispositions == {JOINABLE, CANNOT_JOIN}

\* Python truthiness of an IntEnum member: bool(member) is bool(int(member))
Truthy(n) == n # 0

WriteOrder(advise) == [kind |-> "write", advise |-> advise]
ReadOrder(advise) == [kind |-> "read", advise |-> advise]
MessageOrder == [kind |-> "message", advise |-> ADVISE]
SysctlOrder == [kind |-> "sysctl", advise |-> ADVISE]
WaitOrder == [kind |-> "wait", advise |-> ADVISE]

\* WriteOrder.__init__: self.repeat_count = 10 if advise == AdviseLevel.FORCE else 1
WriteRepeatCount(advise) == IF advise = FORCE THEN 10 ELSE 1

\* ReadOrder.__init__: self.repeat_count = 3 if AdviseLevel.ADVISE else 20
\* (the condition is the enum member itself, not a comparison with advise)
ReadRepeatCount(advise) == IF Truthy(ADVISE) THEN 3 ELSE 20

\* MessageOrder.__init__: self.times_retry = 3
MessageTimesRetry == 3

\* the counter an order is constructed with (orders without fail() carry none)
InitialCount(ord) ==
    CASE ord.kind = "write" -> WriteRepeatCount(ord.advise)
      [] ord.kind = "read" -> ReadRepeatCount(ord.advise)
      [] ord.kind = "message" -> MessageTimesRetry
      [] OTHER -> 0

\* mutant of Requeue: retry as long as the counter has not gone negative
RequeueWhileNonNegative(count) == count >= 0

\* WriteOrder.fail / ReadOrder.fail / MessageOrder.fail, the value returned
\* after the decrement: return bool(self.repeat_count)
Requeue(count) == Truthy(count)

\* orders that define fail()
HasFail(ord) == ord.kind \in {"write", "read", "message"}

\* mutant of IsJoinable: every section may be joined
IsJoinableAlways(disposition) == TRUE

\* Section.is_joinable
IsJoinable(disposition) == disposition = JOINABLE

\* Section.__iadd__: self.future += other.future (a FutureCollection of both)
FutureIadd(mine, other) == mine \cup other

\* The order lists user code and the cloud hand to the executor
OrderLists ==
    { <<WaitOrder, WriteOrder(FORCE)>>,
      <<ReadOrder(ADVISE), WriteOrder(ADVISE)>>,
      <<ReadOrder(FORCE), SysctlOrder>>,
      <<MessageOrder>> }

(***************************************************************************)
(* State of the order executor: smok/threads/executor.py                   *)
(***************************************************************************)
VARIABLES
    nCreated,         \* number of Section objects put on the order queue so far
    section,          \* the Section objects something still refers to, by number
    order,            \* their order objects, by <<section, index>>
    futDone,          \* the section Futures on which set_result was called
    queue,            \* SMOKDevice._order_queue
    pc,               \* where the executor thread is
    cur,              \* the section execute_a_section works on (0: none)
    otc,              \* zip(orders_to_complete, futures_to_complete) of process_orders
    terminating,      \* TerminableThread.terminating
    hfut,             \* state of the Future of every handler call that returned one
    invoked,          \* how often the on_read / on_write handler was called per order
    started,          \* sections whose orders were handed to process_orders
    batchOf,          \* for every dequeued section, the sections executed in its batch
    okThenDispatched, \* an order was dispatched again after its Future succeeded
    ngtt_orders       \* the ngtt.orders.Order objects NGTTSyncWorker.process_orders got

execVars == <<nCreated, section, order, futDone, queue, pc, cur, otc, terminating, hfut,
              invoked, started, batchOf, okThenDispatched, ngtt_orders>>

\* State of the stores and of the communicator thread (their model follows the
\* executor's)
VARIABLES
    pathpoints,         \* InMemoryPathpointDatabase.pathpoints: name -> list of timestamps
    current_timestamp,  \* Pathpoint.current_timestamp per pathpoint (None: NoTimestamp)
    sw_events,          \* InMemorySensorWriteDatabase.events
    events_to_sync,     \* InMemoryEventDatabase.events_to_sync: is_closed() per event
    commPc,             \* where the communicator thread is
    dataSync,           \* the InMemoryDataToSynchronize sync_data holds
    swSync,             \* the BaseSensorWriteSynchronization sync_sensor_writes holds
    evtSync,            \* the events InMemoryEventSynchronization was asked to send
    tries,              \* calls the retry decorator has made of the current function
    unsettled           \* per kind, the snapshots obtained and neither acked nor nacked

syncVars == <<pathpoints, current_timestamp, sw_events, events_to_sync, commPc, dataSync,
              swSync, evtSync, tries, unsettled>>

\* What an observer of sync_data saw last (followed only where a property needs it)
VARIABLES
    lastOutcome,        \* how the last sync_pathpoints call of sync_data ended
    notified,           \* the SMOKDevice hook sync_data called last
    nacked,             \* the data of the snapshot sync_data negatively acknowledged last
    above_ack           \* the samples above the maxima of the snapshot sync_data
                        \* acknowledged last that the store held at the acknowledge

obsVars == <<lastOutcome, notified, nacked, above_ack>>

\* State of the NGTT uplink: ngtt/uplink/thread.py, ngtt/uplink/connection.py
VARIABLES
    connected,              \* current_connection is an NGTTSocket that is connected
    id_assigner,            \* the tids the connection's IDAllocator has handed out
    ping_id,                \* NGTTSocket.ping_id (None: NoTid)
    currently_running_ops,  \* NGTTConnection.currently_running_ops, by their Future
    op_id_to_op,            \* NGTTConnection.op_id_to_op: tid -> Future
    futures,                \* state of the Future of every sync_pathpoints call
    awaiting,               \* frames sent on this connection that no frame has settled
    call,                   \* the sync_pathpoints call in progress in the caller's thread
    uplink,                 \* the uplink thread: "running", "dead" or "stopped"
    echoed                  \* inner_loop received a PING frame on this connection

linkVars == <<connected, id_assigner, ping_id, currently_running_ops, op_id_to_op, futures,
              awaiting, call, uplink, echoed>>

\* State of the frame codec and of the receive side of NGTTSocket: ngtt/protocol.py,
\* ngtt/uplink/connection.py
VARIABLES
    wire,                   \* the bytes the server sent that recv has not returned yet
    sent,                   \* the frames the server sent on this connection, in order
    buffer,                 \* NGTTSocket.buffer
    returned,               \* the frames recv_frame returned, in order
    rx,                     \* "ok", or the exception that left recv_frame
    codec                   \* the last frame encoded, and what the decoders made of it

frameVars == <<wire, sent, buffer, returned, rx, codec>>

\* State of one pathpoint, of its samples in the data-point store and of the read
\* and write orders the executor dispatches to it: smok/pathpoint/pathpoint.py,
\* smok/extras/pp_database/in_memory.py, smok/threads/executor.py
VARIABLES
    now,                    \* the clock: time.time(), time.monotonic() and time_ms()
    pathpoint,              \* the Pathpoint object (NoPathpoint before its construction)
    pp_values,              \* InMemoryPathpointDatabase.pathpoints[name] (<<>>: no such key)
    read_futures,           \* the pending Futures on_read returned, with their callback
    write_order,            \* the WriteOrder process_orders works on
    executor,               \* the executor thread: "running" or "dead"
    on_read_calls,          \* the times at which on_read was invoked
    on_write_calls,         \* the invocations of on_write: time and stale_after
    skipped,                \* the stale_after of the writes is_valid refused
    dispatched              \* the read orders, write orders and user calls so far

ioVars == <<now, pathpoint, pp_values, read_futures, write_order, executor, on_read_calls,
            on_write_calls, skipped, dispatched>>

\* State of the log queue, of the threads that emit into it and of the log publisher
\* thread: smok/logging.py, smok/threads/log_publisher.py
VARIABLES
    allow_sync,             \* SMOKDevice.allow_sync
    log_queue,              \* LogPublisherThread.queue, as runs of consecutive records
    issued,                 \* number of records handed to SMOKLogHandler.emit so far
    holder,                 \* the emitting thread inside emit, after its qsize test (0: none)
    emits,                  \* number of single emit calls so far
    log_pc,                 \* where the log publisher thread is
    log_terminating,        \* LogPublisherThread._terminating
    loops                   \* number of times the publisher's loop(msg) was entered

logVars == <<allow_sync, log_queue, issued, holder, emits, log_pc, log_terminating, loops>>

\* State of the agent facade and of its other worker threads: smok/client/client.py
VARIABLES
    dev_closed,             \* Closeable.closed of the SMOKDevice
    close_pc,               \* where the thread that called close() is
    workers,                \* executor, getter and arch_and_macros: what the thread does
    worker_terminating,     \* TerminableThread._terminating of these threads
    device_state,           \* sizes of the order queue and of the stores of the device
    last_call,              \* the public operation called last and what it raised
    op_calls                \* number of public operations called so far

closeVars == <<dev_closed, close_pc, workers, worker_terminating, device_state, last_call, op_calls>>

\* State of one predicate and of the events it opened: smok/predicate/base.py
VARIABLES
    predicate,              \* the BaseStatistic instance (its silencing list)
    localtime,              \* SMOKDevice.get_local_time(): <<isoweekday, hour, minute>>
    evt_events,             \* number of events open_event added to the event database
    evt_returned,           \* what the last open_event returned
    opened                  \* number of open_event calls so far

predVars == <<predicate, localtime, evt_events, evt_returned, opened>>

\* State of the events and of their synchronization:
\* smok/extras/event_database/in_memory.py, smok/predicate/event.py
VARIABLES
    event_objs,             \* the Event objects created so far: uuid and whether closed
    evt_pending,            \* InMemoryEventDatabase.events_to_sync, a list of events
    evt_sent,               \* the events of the request of sync_events, as they were sent
    uuids_issued,           \* number of UUIDs the server has assigned
    evt_passes              \* number of requests of sync_events so far

evdbVars == <<event_objs, evt_pending, evt_sent, uuids_issued, evt_passes>>

\* State of the synchronization of the BAOBs: smok/threads/communicator.py,
\* smok/baob.py, smok/client/client.py
VARIABLES
    baob_mono,              \* time.monotonic()
    last_baob_synced,       \* CommunicatorThread.last_baob_synced
    baob_passes,            \* number of calls of _sync_baob so far
    baob_hooks,             \* number of calls of SMOKDevice.on_baob_updated so far
    baob_completed,         \* number of calls of _sync_baob that did not raise
    baob_ticks              \* number of times the clock was advanced

baobVars == <<baob_mono, last_baob_synced, baob_passes, baob_hooks, baob_completed, baob_ticks>>

\* State of the synchronization of the predicates: smok/threads/communicator.py
VARIABLES
    local_preds,            \* the keys of SMOKDevice.predicates
    psync_pc,               \* where sync_predicates is
    pred_resp,              \* the response of the server that is being processed
    pred_pos,               \* position of the for loop in the response
    predicates_found,       \* the local variable predicates_found
    offline_calls,          \* on_offline calls of this pass, per predicate id
    preds_before,           \* the keys of SMOKDevice.predicates when the pass began
    psync_passes,           \* number of passes begun so far
    pred_resets             \* number of calls of reset_predicates so far

psyncVars == <<local_preds, psync_pc, pred_resp, pred_pos, predicates_found, offline_calls,
               preds_before, psync_passes, pred_resets>>

\* State of the pathpoints of the device: smok/client/client.py, smok/pathpoint
VARIABLES
    dev_pathpoints,         \* SMOKDevice.pathpoints: path -> storage_level of the Pathpoint
    pp_dirty,               \* SMOKDevice.pathpoints.dirty
    catalog_resp,           \* the response to the last PUT /v1/device/pathpoints
    catalog_outcome,        \* how the last sync_pathpoints of the communicator ended
    catalog_syncs,          \* number of calls of sync_pathpoints so far
    reparse_last            \* the last operation on a derived pathpoint and what it did

ppVars == <<dev_pathpoints, pp_dirty, catalog_resp, catalog_outcome, catalog_syncs,
            reparse_last>>

\* State of the readiness lock of the device: smok/client/client.py
VARIABLES
    dev_flags,              \* the dont_* arguments of SMOKDevice.__init__ (<<>>: not built)
    ready_lock,             \* SMOKDevice.ready_lock: who holds it
    ready_releases,         \* releases of ready_lock by __init__ and by the communicator
    last_predicates_synced, \* CommunicatorThread.last_predicates_synced
    comm_passes,            \* passes of CommunicatorThread.loop: begun and successful
    waiter                  \* the user thread in wait_until_synced or get_sensor

readyVars == <<dev_flags, ready_lock, ready_releases, last_predicates_synced, comm_passes,
               waiter>>

\* State of the write side of the NGTT socket: ngtt/uplink/connection.py
VARIABLES
    w_buffer,               \* NGTTSocket.w_buffer, as the pieces of the frames in it
    w_sock,                 \* the socket: connected, time since last_read, ping_id set
    last_select,            \* the last pass of inner_loop: rx, wx and the pieces it sent
    w_frames                \* number of send_frame calls of the users so far

wbufVars == <<w_buffer, w_sock, last_select, w_frames>>

\* State of the macros: smok/macro/macro.py, smok/extras/macros_database/in_memory.py,
\* smok/threads/archives_and_macros/thread.py
VARIABLES
    macros_to_execute,      \* InMemoryMacroDatabase.macros_to_execute, a list of Macros
    executions_to_sync,     \* InMemoryMacroDatabase.executions_to_sync
    macro_time,             \* time.time()
    arch_thread,            \* ArchivingAndMacroThread: "running" or "dead", and its passes
    fired,                  \* Sections enqueued per occurrence <<macro_id, timestamp>>
    cloud_completed         \* the occurrences whose confirmation the cloud accepted

macroVars == <<macros_to_execute, executions_to_sync, macro_time, arch_thread, fired,
               cloud_completed>>

coreVars == <<execVars, syncVars, obsVars, linkVars, frameVars>>
devVars == <<ioVars, logVars, closeVars, predVars>>

\* The variables of the parts of the device added below, and for each part the
\* variables it leaves alone
lateVars == <<evdbVars, baobVars, psyncVars, ppVars, readyVars, wbufVars, macroVars>>
notEvdb == <<coreVars, devVars, baobVars, psyncVars, ppVars, readyVars, wbufVars, macroVars>>
notBaob == <<coreVars, devVars, evdbVars, psyncVars, ppVars, readyVars, wbufVars, macroVars>>
notPsync == <<coreVars, devVars, evdbVars, baobVars, ppVars, readyVars, wbufVars, macroVars>>
notPp == <<coreVars, devVars, evdbVars, baobVars, psyncVars, readyVars, wbufVars, macroVars>>
notReady == <<coreVars, devVars, evdbVars, baobVars, psyncVars, ppVars, wbufVars, macroVars>>
notWbuf == <<coreVars, devVars, evdbVars, baobVars, psyncVars, ppVars, readyVars, macroVars>>
notMacro == <<coreVars, devVars, evdbVars, baobVars, psyncVars, ppVars, readyVars, wbufVars>>

restVars == <<devVars, lateVars>>
otherVars == <<linkVars, frameVars, restVars>>

\* values of the local variable fut of process_orders that are no handler Future
Unbound == <<0, 0>>
NotAFuture == <<0, 1>>

\* what a handler call does: return a Future, return a plain value or None,
\* or not be made at all (KeyError of get_pathpoint, a stale write, can_read() false)
DispatchChoices == {"future", "plain", "skip"}

\* what a handler Future ends with: "failed" is OperationFailedError or ResponseError,
\* "ok" a result or any other exception (process_orders tells only these two apart)
Outcomes == {"ok", "failed"}

OrderIds(s, orders) == {<<s, i>> : i \in 1..Len(orders)}

\* restriction of a function to the arguments in S
Restrict(f, S) == [x \in DOMAIN f \cap S |-> f[x]]

\* Section.__init__ for section number s
NewSection(s, orders, disposition) ==
    [orders |-> [i \in 1..Len(orders) |-> <<s, i>>],
     disposition |-> disposition,
     future |-> {s},
     cancelled |-> FALSE]

\* SMOKDevice.execute(Section(orders, disposition)): construct the orders and the
\* section, put the section on the order queue
Execute(orders, disposition) ==
    /\ UNCHANGED <<syncVars, obsVars, otherVars>>
    /\ nCreated < MaxSections
    /\ LET s == nCreated + 1
       IN /\ nCreated' = s
          /\ section' = section @@ (s :> NewSection(s, orders, disposition))
          /\ order' = order @@ [o \in OrderIds(s, orders) |->
                                  [kind |-> orders[o[2]].kind,
                                   advise |-> orders[o[2]].advise,
                                   repeat_count |-> InitialCount(orders[o[2]])]]
          /\ invoked' = invoked @@ [o \in OrderIds(s, orders) |-> 0]
          /\ batchOf' = batchOf @@ (s :> {})
          /\ queue' = Append(queue, s)
    /\ UNCHANGED <<futDone, pc, cur, otc, terminating, hfut, started, okThenDispatched,
                   ngtt_orders>>

\* Section.cancel, called by user code on a section that waits in the queue
Cancel(s) ==
    /\ UNCHANGED <<syncVars, obsVars, otherVars>>
    /\ \E k \in 1..Len(queue) : queue[k] = s
    /\ ~section[s].cancelled
    /\ section' = [section EXCEPT ![s].cancelled = TRUE]
    /\ UNCHANGED <<nCreated, order, futDone, queue, pc, cur, otc, terminating, hfut,
                   invoked, started, batchOf, okThenDispatched, ngtt_orders>>

\* Order.acknowledge of the ngtt order o, on a socket that is open or not: send_frame
\* of ORDER_CONFIRM with the tid of the order, then confirmed = True
Acknowledged(o, open) ==
    IF ~o.confirmed /\ open
    THEN [o EXCEPT !.confirmed = TRUE, !.sends = Append(@, o.tid)]
    ELSE o

\* the done callbacks of the section Futures in done, which set_result runs:
\* the confirm closures of NGTTSyncWorker.process_orders
DoneCallbacks(received, done, open) ==
    [k \in DOMAIN received |->
        IF received[k].callback_on \in done
        THEN Acknowledged(received[k], open)
        ELSE received[k]]

\* the states the socket of an ngtt order can be in when a callback uses it
SocketOpen(received, done) ==
    IF \E k \in DOMAIN received : received[k].callback_on \in done
    THEN BOOLEAN
    ELSE {TRUE}

\* the for loop of process_orders from order i on; acc holds the locals
RECURSIVE ProcessOrdersFrom(_, _, _, _)
ProcessOrdersFrom(orders, i, ch, acc) ==
    IF i > Len(orders) \/ acc.crash THEN acc
    ELSE LET o == orders[i]
             kind == order[o].kind
             next ==
               CASE kind = "write" ->
                      ( CASE ch[i] = "skip" -> acc
                          [] ch[i] = "plain" ->
                               [acc EXCEPT !.fut = NotAFuture, !.invoked = @ \cup {o}]
                          [] OTHER ->
                               [acc EXCEPT !.fut = o, !.invoked = @ \cup {o},
                                           !.newFut = @ \cup {o},
                                           !.otc = Append(@, <<o, o>>)] )
                 [] kind = "read" ->
                      ( CASE ch[i] = "skip" -> acc
                          [] ch[i] = "plain" ->
                               [acc EXCEPT !.fut = NotAFuture, !.invoked = @ \cup {o}]
                          [] OTHER ->
                               [acc EXCEPT !.fut = o, !.invoked = @ \cup {o},
                                           !.newFut = @ \cup {o}] )
                 [] kind = "message" ->
                      [acc EXCEPT !.fut = o, !.newFut = @ \cup {o},
                                  !.otc = Append(@, <<o, o>>)]
                 [] kind = "sysctl" ->
                      IF acc.fut = Unbound
                      THEN [acc EXCEPT !.crash = TRUE]
                      ELSE [acc EXCEPT !.otc = Append(@, <<o, acc.fut>>)]
                 [] OTHER -> acc
         IN ProcessOrdersFrom(orders, i + 1, ch, next)

\* concurrent.futures.wait raises on an element that is no Future
WaitCrashes(pairs) == \E k \in 1..Len(pairs) : pairs[k][2] = NotAFuture

\* the zip loop at the end of process_orders from pair i on
RECURSIVE FailFrom(_, _, _)
FailFrom(pairs, i, acc) ==
    IF i > Len(pairs) \/ acc.crash THEN acc
    ELSE LET o == pairs[i][1]
             f == pairs[i][2]
         IN IF hfut[f] = "failed"
            THEN IF HasFail(acc.order[o])
                 THEN LET c == acc.order[o].repeat_count - 1
                      IN FailFrom(pairs, i + 1,
                                  [acc EXCEPT !.order[o].repeat_count = c,
                                              !.retry = IF Requeue(c) THEN Append(@, o) ELSE @])
                 ELSE [acc EXCEPT !.crash = TRUE]
            ELSE FailFrom(pairs, i + 1, acc)

\* the Futures something still refers to: the pending ones (their handler thread
\* holds them) and those process_orders waits for
Referenced(h, pairs) ==
    Restrict(h, {x \in DOMAIN h : h[x] = "pending" \/ \E k \in 1..Len(pairs) : pairs[k][2] = x})

\* mutant of MarkAsDone: a cancelled section's future is left unresolved
MarkAsDoneUnlessCancelled(s, futs) ==
    IF section[s].cancelled THEN futDone ELSE futDone \cup futs

\* Section.mark_as_done: self.future.set_result(None)
MarkAsDone(s, futs) == futDone \cup futs

\* one call of process_orders(orders) on behalf of section s up to its wait, and
\* what execute_a_section does when it returns without anything to wait for
RunPass(s, orders, ch, futs, calls) ==
    LET r == ProcessOrdersFrom(orders, 1, ch,
                               [fut |-> Unbound, otc |-> <<>>, newFut |-> {},
                                invoked |-> {}, crash |-> FALSE])
        h == [o \in DOMAIN hfut \cup r.newFut |->
                IF o \in r.newFut THEN "pending" ELSE hfut[o]]
    IN /\ invoked' = [o \in DOMAIN calls |->
                        IF o \in r.invoked THEN calls[o] + 1 ELSE calls[o]]
       /\ okThenDispatched' =
            (okThenDispatched \/
             \E o \in r.invoked : o \in DOMAIN hfut /\ hfut[o] = "ok")
       /\ IF r.crash \/ WaitCrashes(r.otc)
          THEN pc' = "dead" /\ cur' = s /\ otc' = <<>> /\ UNCHANGED futDone
          ELSE IF r.otc = <<>>
               THEN /\ pc' = "idle" /\ cur' = 0 /\ otc' = <<>>
                    /\ futDone' = MarkAsDone(s, futs)
               ELSE pc' = "waiting" /\ cur' = s /\ otc' = r.otc /\ UNCHANGED futDone
       /\ hfut' = Referenced(h, otc')

\* OrderExecutorThread.loop, from queue.get up to the first wait of process_orders.
\* Nothing refers any more to the sections that were marked done before, nor to
\* their orders.
Loop ==
    /\ UNCHANGED <<syncVars, obsVars, otherVars>>
    /\ pc = "idle"
    /\ queue # <<>>
    /\ LET head == Head(queue)
           rest == Tail(queue)
           join == /\ rest # <<>>
                   /\ IsJoinable(section[head].disposition)
                   /\ IsJoinable(section[Head(rest)].disposition)
           orders == IF join THEN section[head].orders \o section[Head(rest)].orders
                     ELSE section[head].orders
           futs == IF join THEN FutureIadd(section[head].future, section[Head(rest)].future)
                   ELSE section[head].future
           members == IF join THEN {head, Head(rest)} ELSE {head}
           live == DOMAIN section \ futDone
           liveOrders == {o \in DOMAIN order : o[1] \in live}
       IN /\ queue' = (IF join THEN Tail(rest) ELSE rest)
          /\ section' = [Restrict(section, live) EXCEPT ![head].orders = orders,
                                                        ![head].future = futs]
          /\ order' = Restrict(order, liveOrders)
          /\ batchOf' = [s \in live |-> IF s \in members THEN members ELSE batchOf[s]]
          /\ UNCHANGED <<nCreated, terminating>>
          /\ IF terminating
             THEN \* execute_a_section returns before mark_as_being_executed
                  /\ pc' = "stopped" /\ cur' = 0
                  /\ invoked' = Restrict(invoked, liveOrders)
                  /\ started' = started \cap live
                  /\ UNCHANGED <<futDone, otc, hfut, okThenDispatched>>
             ELSE IF section[head].cancelled
                  THEN \* mark_as_being_executed returns False
                       /\ futDone' = MarkAsDone(head, futs)
                       /\ pc' = "idle" /\ cur' = 0
                       /\ invoked' = Restrict(invoked, liveOrders)
                       /\ started' = started \cap live
                       /\ UNCHANGED <<otc, hfut, okThenDispatched>>
                  ELSE /\ started' = (started \cap live) \cup members
                       /\ \E ch \in [1..Len(orders) -> DispatchChoices] :
                            RunPass(head, orders, ch, futs, Restrict(invoked, liveOrders))
    /\ \E open \in SocketOpen(ngtt_orders, futDone' \ futDone) :
           ngtt_orders' = DoneCallbacks(ngtt_orders, futDone' \ futDone, open)

\* process_orders after its wait, and the rest of execute_a_section
Collect ==
    /\ UNCHANGED <<syncVars, obsVars, otherVars>>
    /\ pc = "waiting"
    /\ terminating \/ \A k \in 1..Len(otc) : hfut[otc[k][2]] # "pending"
    /\ UNCHANGED <<nCreated, section, queue, terminating, started, batchOf>>
    /\ IF terminating
       THEN /\ pc' = "stopped" /\ cur' = 0 /\ otc' = <<>>
            /\ futDone' = MarkAsDone(cur, section[cur].future)
            /\ hfut' = Referenced(hfut, <<>>)
            /\ UNCHANGED <<order, invoked, okThenDispatched>>
       ELSE LET f == FailFrom(otc, 1, [retry |-> <<>>, order |-> order, crash |-> FALSE])
            IN /\ order' = f.order
               /\ IF f.crash
                  THEN /\ pc' = "dead" /\ otc' = <<>>
                       /\ hfut' = Referenced(hfut, <<>>)
                       /\ UNCHANGED <<cur, futDone, invoked, okThenDispatched>>
                  ELSE \E ch \in [1..Len(f.retry) -> DispatchChoices] :
                         RunPass(cur, f.retry, ch, section[cur].future, invoked)
    /\ \E open \in SocketOpen(ngtt_orders, futDone' \ futDone) :
           ngtt_orders' = DoneCallbacks(ngtt_orders, futDone' \ futDone, open)

\* a handler's Future completes (in the handler's own thread)
CompleteFuture(o, outcome) ==
    /\ UNCHANGED <<syncVars, obsVars, otherVars>>
    /\ o \in DOMAIN hfut
    /\ hfut[o] = "pending"
    /\ hfut' = Referenced([hfut EXCEPT ![o] = outcome], otc)
    /\ UNCHANGED <<nCreated, section, order, futDone, queue, pc, cur, otc, terminating,
                   invoked, started, batchOf, okThenDispatched, ngtt_orders>>

\* SMOKDevice.close: self.executor.terminate()
Terminate ==
    /\ UNCHANGED <<syncVars, obsVars, otherVars>>
    /\ ~terminating
    /\ terminating' = TRUE
    /\ UNCHANGED <<nCreated, section, order, futDone, queue, pc, cur, otc, hfut,
                   invoked, started, batchOf, okThenDispatched, ngtt_orders>>

\* TerminableThread.run leaves its loop once terminating is set
Stop ==
    /\ UNCHANGED <<syncVars, obsVars, otherVars>>
    /\ pc = "idle"
    /\ terminating
    /\ pc' = "stopped"
    /\ UNCHANGED <<nCreated, section, order, futDone, queue, cur, otc, terminating, hfut,
                   invoked, started, batchOf, okThenDispatched, ngtt_orders>>

ExecuteAny == \E orders \in OrderLists, d \in Dispositions : Execute(orders, d)
CancelAny == \E s \in DOMAIN section : Cancel(s)
CompleteAny == \E o \in DOMAIN hfut, outcome \in Outcomes : CompleteFuture(o, outcome)

(***************************************************************************)
(* The data-point store, the sensor-write and event databases and the      *)
(* communicator thread that synchronizes them:                             *)
(* smok/extras/pp_database/in_memory.py, smok/pathpoint/pathpoint.py,      *)
(* smok/extras/sensor_write_database, smok/extras/event_database,          *)
(* smok/threads/communicator.py                                            *)
(***************************************************************************)
Pathpoints == {"p"}
Timestamps == 1..MaxTs
NoTimestamp == 0
SensorWrites == 1..MaxSensorWrites

\* no InMemoryDataToSynchronize
NoData == [held |-> FALSE, data |-> <<>>]

\* how a request to the server ends: "other" is an exception that is neither
\* SyncError nor ResponseError
SyncOutcomes == {"ok", "no_link", "server_fault", "clients_fault", "other"}

\* number of samples the store holds
RECURSIVE Samples(_)
Samples(store) ==
    IF DOMAIN store = {} THEN 0
    ELSE LET p == CHOOSE x \in DOMAIN store : TRUE
         IN Len(store[p]) + Samples(Restrict(store, DOMAIN store \ {p}))

\* InMemoryPathpointDatabase.on_new_data on the store content
OnNewDataStore(store, p, ts) ==
    IF p \notin DOMAIN store
    THEN store @@ (p :> <<ts>>)
    ELSE IF store[p][1] < ts
         THEN [store EXCEPT ![p] = Append(@, ts)]
         ELSE store

\* pp_database.on_new_data called directly (the store is a public extension point)
OnNewData(p, ts) ==
    /\ UNCHANGED <<execVars, obsVars, otherVars>>
    /\ Samples(pathpoints) < MaxSamples
    /\ pathpoints' = OnNewDataStore(pathpoints, p, ts)
    /\ UNCHANGED <<current_timestamp, sw_events, events_to_sync, commPc, dataSync, swSync,
                   evtSync, tries, unsettled>>

\* Pathpoint.set_new_value(timestamp, value)
SetNewValue(p, ts) ==
    /\ UNCHANGED <<execVars, obsVars, otherVars>>
    /\ Samples(pathpoints) < MaxSamples
    /\ IF current_timestamp[p] # NoTimestamp /\ current_timestamp[p] >= ts
       THEN UNCHANGED <<pathpoints, current_timestamp>>
       ELSE /\ pathpoints' = OnNewDataStore(pathpoints, p, ts)
            /\ current_timestamp' = [current_timestamp EXCEPT ![p] = ts]
    /\ UNCHANGED <<sw_events, events_to_sync, commPc, dataSync, swSync, evtSync, tries,
                   unsettled>>

\* max(v['timestamp'] for v in pp['values'])
RECURSIVE MaxTimestamp(_)
MaxTimestamp(values) ==
    IF Len(values) = 1 THEN values[1]
    ELSE LET m == MaxTimestamp(Tail(values))
         IN IF values[1] >= m THEN values[1] ELSE m

\* the for ... else of confirm_synced_up_to: the first index whose timestamp is
\* above ts, 0 for None
RECURSIVE FirstAbove(_, _, _)
FirstAbove(values, ts, i) ==
    IF i > Len(values) THEN 0
    ELSE IF values[i] > ts THEN i
    ELSE FirstAbove(values, ts, i + 1)

\* mutant of ConfirmSyncedUpTo: an acknowledge drops every sample of the pathpoint
ConfirmSyncedUpToAll(store, p, ts) ==
    IF p \notin DOMAIN store THEN store
    ELSE Restrict(store, DOMAIN store \ {p})

\* InMemoryPathpointDatabase.confirm_synced_up_to
ConfirmSyncedUpTo(store, p, ts) ==
    IF p \notin DOMAIN store THEN store
    ELSE LET i == FirstAbove(store[p], ts, 1)
         IN IF i = 0
            THEN Restrict(store, DOMAIN store \ {p})
            ELSE [store EXCEPT ![p] = SubSeq(@, i, Len(@))]

\* InMemoryDataToSynchronize.acknowledge for the pathpoints todo of the snapshot
RECURSIVE Acknowledge(_, _, _)
Acknowledge(store, data, todo) ==
    IF todo = {} THEN store
    ELSE LET p == CHOOSE x \in todo : TRUE
         IN Acknowledge(ConfirmSyncedUpTo(store, p, MaxTimestamp(data[p])), data,
                        todo \ {p})

\* sync_data up to the request: get_data_to_sync, and return if it is None
SyncDataGet ==
    /\ UNCHANGED <<execVars, obsVars, otherVars>>
    /\ commPc = "sync_data"
    /\ IF DOMAIN pathpoints = {}
       THEN /\ commPc' = "sync_sensor_writes"
            /\ UNCHANGED <<dataSync, unsettled>>
       ELSE /\ commPc' = "data_held"
            /\ dataSync' = [held |-> TRUE, data |-> pathpoints]
            /\ unsettled' = [unsettled EXCEPT !.data = @ + 1]
    /\ UNCHANGED <<pathpoints, current_timestamp, sw_events, events_to_sync, swSync,
                   evtSync, tries>>

\* mutant of DataSettlement: the snapshot is not nacked when the server fails
DataSettlementWithoutNack(outcome) ==
    CASE outcome = "ok" -> "ack"
      [] OTHER -> "none"

\* the warning of the clients-fault branch of sync_data reads e.status_code, which a
\* SyncError does not have: the AttributeError leaves sync_data before acknowledge
WarningRaises(outcome) == outcome = "clients_fault"

\* what sync_data does with its snapshot, by the outcome of sync_pathpoints
DataSettlement(outcome) ==
    CASE outcome = "ok" -> "ack"
      [] outcome \in {"no_link", "server_fault"} -> "nack"
      [] OTHER -> "none"

\* an exception no handler of the sync function catches leaves CommunicatorThread.loop
ThreadDies(outcome) == outcome = "other"

\* sync_data from the request on
SyncDataFinish(outcome) ==
    /\ UNCHANGED <<execVars, otherVars>>
    /\ commPc = "data_held"
    /\ LET settlement == DataSettlement(outcome)
       IN /\ pathpoints' = (IF settlement = "ack"
                            THEN Acknowledge(pathpoints, dataSync.data, DOMAIN dataSync.data)
                            ELSE pathpoints)
          /\ IF settlement = "none"
             THEN UNCHANGED <<dataSync, unsettled>>
             ELSE /\ dataSync' = NoData
                  /\ unsettled' = [unsettled EXCEPT !.data = @ - 1]
    /\ commPc' = (IF ThreadDies(outcome) \/ WarningRaises(outcome)
                  THEN "dead"
                  ELSE "sync_sensor_writes")
    /\ UNCHANGED <<current_timestamp, sw_events, events_to_sync, swSync, evtSync, tries>>

\* InMemorySensorWriteDatabase.add_sw
AddSw(e) ==
    /\ UNCHANGED <<execVars, obsVars, otherVars>>
    /\ e \notin sw_events
    /\ sw_events' = sw_events \cup {e}
    /\ UNCHANGED <<pathpoints, current_timestamp, events_to_sync, commPc, dataSync, swSync,
                   evtSync, tries, unsettled>>

\* sync_sensor_writes up to the request: get_sw_sync, and return if it is empty
SyncSensorWritesGet ==
    /\ UNCHANGED <<execVars, obsVars, otherVars>>
    /\ commPc = "sync_sensor_writes"
    /\ IF sw_events = {}
       THEN /\ commPc' = "sync_events"
            /\ tries' = 0
            /\ UNCHANGED <<swSync, unsettled>>
       ELSE /\ commPc' = "sw_held"
            /\ swSync' = sw_events
            /\ unsettled' = [unsettled EXCEPT !.sw = @ + 1]
            /\ UNCHANGED tries
    /\ UNCHANGED <<pathpoints, current_timestamp, sw_events, events_to_sync, dataSync,
                   evtSync>>

\* sync_sensor_writes from the request on, under retry(3, ResponseError)
SyncSensorWritesFinish(outcome) ==
    /\ UNCHANGED <<execVars, obsVars, otherVars>>
    /\ commPc = "sw_held"
    /\ IF ThreadDies(outcome)
       THEN /\ commPc' = "dead"
            /\ UNCHANGED <<sw_events, swSync, unsettled, tries>>
       ELSE /\ swSync' = {}
            /\ unsettled' = [unsettled EXCEPT !.sw = @ - 1]
            /\ IF outcome \in {"ok", "clients_fault"}
               THEN \* sync.ack()
                    /\ sw_events' = sw_events \ swSync
                    /\ commPc' = "sync_events"
                    /\ tries' = 0
               ELSE \* sync.nack(); raise
                    /\ UNCHANGED sw_events
                    /\ IF tries + 1 < SensorWritesRetry
                       THEN commPc' = "sync_sensor_writes" /\ tries' = tries + 1
                       ELSE commPc' = "sync_events" /\ tries' = 0
    /\ UNCHANGED <<pathpoints, current_timestamp, events_to_sync, dataSync, evtSync>>

\* InMemoryEventDatabase.add_event of an event that is open or already closed
AddEvent(closed) ==
    /\ UNCHANGED <<execVars, obsVars, otherVars>>
    /\ Len(events_to_sync) < MaxEvents
    /\ events_to_sync' = Append(events_to_sync, closed)
    /\ UNCHANGED <<pathpoints, current_timestamp, sw_events, commPc, dataSync, swSync,
                   evtSync, tries, unsettled>>

\* InMemoryEventSynchronization.acknowledge: zip(self.events, uuids) from position i
\* on with n uuids left, removing the closed events from the list it iterates
RECURSIVE AcknowledgeEvents(_, _, _)
AcknowledgeEvents(events, i, n) ==
    IF i > Len(events) \/ n = 0 THEN events
    ELSE IF events[i]
         THEN AcknowledgeEvents(SubSeq(events, 1, i - 1) \o SubSeq(events, i + 1, Len(events)),
                                i + 1, n - 1)
         ELSE AcknowledgeEvents(events, i + 1, n - 1)

\* sync_events up to the request: get_events_to_sync, and return if it is None
SyncEventsGet ==
    /\ UNCHANGED <<execVars, obsVars, otherVars>>
    /\ commPc = "sync_events"
    /\ IF events_to_sync = <<>>
       THEN /\ commPc' = "sync_data"
            /\ tries' = 0
            /\ UNCHANGED <<evtSync, unsettled>>
       ELSE /\ commPc' = "evt_held"
            /\ evtSync' = Len(events_to_sync)
            /\ unsettled' = [unsettled EXCEPT !.evt = @ + 1]
            /\ UNCHANGED tries
    /\ UNCHANGED <<pathpoints, current_timestamp, sw_events, events_to_sync, dataSync,
                   swSync>>

\* sync_events from the request on, under retry(3, ResponseError)
SyncEventsFinish(outcome) ==
    /\ UNCHANGED <<execVars, obsVars, otherVars>>
    /\ commPc = "evt_held"
    /\ IF ThreadDies(outcome)
       THEN /\ commPc' = "dead"
            /\ UNCHANGED <<events_to_sync, evtSync, unsettled, tries>>
       ELSE /\ evtSync' = 0
            /\ unsettled' = [unsettled EXCEPT !.evt = @ - 1]
            /\ IF outcome = "ok"
               THEN \* evt_to_sync.acknowledge(uuids of the response)
                    /\ events_to_sync' = AcknowledgeEvents(events_to_sync, 1, evtSync)
                    /\ commPc' = "sync_data"
                    /\ tries' = 0
               ELSE \* evt_to_sync.negative_acknowledge(); raise
                    /\ UNCHANGED events_to_sync
                    /\ IF tries + 1 < EventsRetry
                       THEN commPc' = "sync_events" /\ tries' = tries + 1
                       ELSE commPc' = "sync_data" /\ tries' = 0
    /\ UNCHANGED <<pathpoints, current_timestamp, sw_events, dataSync, swSync>>

OnNewDataAny == \E p \in Pathpoints, ts \in Timestamps : OnNewData(p, ts)
SetNewValueAny == \E p \in Pathpoints, ts \in Timestamps : SetNewValue(p, ts)
AddSwAny == \E e \in SensorWrites : AddSw(e)
AddEventAny == \E closed \in BOOLEAN : AddEvent(closed)
SyncDataFinishAny ==
    \E outcome \in SyncOutcomes : SyncDataFinish(outcome) /\ UNCHANGED obsVars

\* mutant of DataNotification: only a successful sync is reported to the device
DataNotificationOnlyOnSuccess(outcome) ==
    IF outcome = "ok" THEN "on_successful_sync" ELSE "none"

\* the hook of SMOKDevice sync_data calls, by the outcome of sync_pathpoints
DataNotification(outcome) ==
    CASE outcome = "ok" -> "on_successful_sync"
      [] outcome = "no_link" -> "on_failed_sync"
      [] OTHER -> "none"

\* the samples of the store that are above the maximum of the snapshot data, for
\* the pathpoints of the snapshot
AboveSnapshot(store, data) ==
    [p \in DOMAIN data \cap DOMAIN store |->
        SelectSeq(store[p], LAMBDA ts : ts > MaxTimestamp(data[p]))]

\* sync_data from the request on, with what an observer sees of it
SyncDataObserved(outcome) ==
    /\ SyncDataFinish(outcome)
    /\ lastOutcome' = outcome
    /\ notified' = DataNotification(outcome)
    /\ nacked' = (IF DataSettlement(outcome) = "nack" THEN dataSync.data ELSE <<>>)
    /\ above_ack' = (IF DataSettlement(outcome) = "ack"
                     THEN AboveSnapshot(pathpoints, dataSync.data)
                     ELSE <<>>)

SyncDataObservedAny == \E outcome \in SyncOutcomes : SyncDataObserved(outcome)
SyncSensorWritesFinishAny == \E outcome \in SyncOutcomes : SyncSensorWritesFinish(outcome)
SyncEventsFinishAny == \E outcome \in SyncOutcomes : SyncEventsFinish(outcome)

(***************************************************************************)
(* The NGTT uplink: ngtt/uplink/thread.py, ngtt/uplink/connection.py        *)
(***************************************************************************)
\* ping_id is None
NoTid == 0

\* the tids of the IDAllocator of an NGTTSocket
Tids == 1..MaxTid

\* no sync_pathpoints call is between its allocate_int and its send_frame, and the
\* last call raised nothing
NoCall == [tid |-> NoTid, op |-> 0, raised |-> "none"]

\* a sync_pathpoints call that left with an exception
Raised(exc) == [tid |-> NoTid, op |-> 0, raised |-> exc]

\* a frame of a transaction, as sent on the connection
FrameOf(tid, type, op) == [tid |-> tid, type |-> type, op |-> op]

\* dict[tid] = fut
Register(ops, tid, fut) ==
    [t \in DOMAIN ops \cup {tid} |-> IF t = tid THEN fut ELSE ops[t]]

\* del list[index_of(x == fut, list)]
RemoveOp(ops, fut) ==
    LET i == CHOOSE k \in 1..Len(ops) : ops[k] = fut
    IN SubSeq(ops, 1, i - 1) \o SubSeq(ops, i + 1, Len(ops))

\* the injective choices allocate_int can make for the first n operations
Allocations(n) ==
    {a \in [1..n -> Tids] : \A i, j \in 1..n : i # j => a[i] # a[j]}

\* NGTTConnection.cleanup and the close of the NGTTSocket: the socket object, with
\* its ping_id and its IDAllocator, is dropped
Dropped ==
    /\ connected' = FALSE
    /\ id_assigner' = {}
    /\ ping_id' = NoTid
    /\ awaiting' = {}
    /\ echoed' = FALSE

\* NGTTConnection.connect succeeding: a new NGTTSocket, an empty op_id_to_op, and
\* every running operation sent again under a newly allocated tid; when the tids
\* run out the loop is left with ConnectionFailed and the socket stays connected
Connect ==
    /\ UNCHANGED <<execVars, syncVars, obsVars, frameVars, restVars>>
    /\ ~connected
    /\ uplink # "stopped"
    /\ LET n == IF Len(currently_running_ops) < MaxTid
                THEN Len(currently_running_ops)
                ELSE MaxTid
       IN \E a \in Allocations(n) :
              /\ id_assigner' = {a[i] : i \in 1..n}
              /\ op_id_to_op' = [t \in {a[i] : i \in 1..n} |->
                                    currently_running_ops[CHOOSE i \in 1..n : a[i] = t]]
              /\ awaiting' = {FrameOf(a[i], "DATA_STREAM", currently_running_ops[i]) :
                                 i \in 1..n}
    /\ connected' = TRUE
    /\ ping_id' = NoTid
    /\ echoed' = FALSE
    /\ UNCHANGED <<currently_running_ops, futures, call, uplink>>

\* inner_loop leaving with ConnectionFailed (the peer closed, a send failed, or no
\* answer for 70 s), and loop calling cleanup
LinkDown ==
    /\ UNCHANGED <<execVars, syncVars, obsVars, frameVars, restVars>>
    /\ connected
    /\ uplink = "running"
    /\ Dropped
    /\ UNCHANGED <<currently_running_ops, op_id_to_op, futures, call, uplink>>

\* sync_pathpoints up to currently_running_ops.append: the Future, the tid
SyncPathpointsBegin ==
    /\ UNCHANGED <<execVars, syncVars, obsVars, frameVars, restVars>>
    /\ connected
    /\ call.tid = NoTid
    /\ Len(futures) < MaxOps
    /\ id_assigner # Tids
    /\ \E tid \in Tids \ id_assigner :
           /\ id_assigner' = id_assigner \cup {tid}
           /\ call' = [tid |-> tid, op |-> Len(futures) + 1, raised |-> "none"]
    /\ futures' = Append(futures, "pending")
    /\ currently_running_ops' = Append(currently_running_ops, Len(futures) + 1)
    /\ UNCHANGED <<connected, ping_id, op_id_to_op, awaiting, uplink, echoed>>

\* sync_pathpoints when allocate_int raises Empty: ConnectionFailed is raised to the
\* caller, and that is all
SyncPathpointsExhausted ==
    /\ UNCHANGED <<execVars, syncVars, obsVars, frameVars, restVars>>
    /\ connected
    /\ call.tid = NoTid
    /\ Len(futures) < MaxOps
    /\ id_assigner = Tids
    /\ futures' = Append(futures, "abandoned")
    /\ call' = Raised("ConnectionFailed")
    /\ UNCHANGED <<connected, id_assigner, ping_id, currently_running_ops, op_id_to_op,
                   awaiting, uplink, echoed>>

\* sync_pathpoints from send_frame on, on whatever current_connection is by now;
\* taken tells whether the socket took the frame
SyncPathpointsSend(taken) ==
    /\ UNCHANGED <<execVars, syncVars, obsVars, frameVars, restVars>>
    /\ call.tid # NoTid
    /\ IF ~connected
       THEN \* current_connection is None: AttributeError
            /\ ~taken
            /\ call' = Raised("AttributeError")
            /\ UNCHANGED <<connected, id_assigner, ping_id, op_id_to_op, awaiting, echoed>>
       ELSE IF taken
            THEN /\ awaiting' = awaiting \cup {FrameOf(call.tid, "DATA_STREAM", call.op)}
                 /\ op_id_to_op' = Register(op_id_to_op, call.tid, call.op)
                 /\ call' = NoCall
                 /\ UNCHANGED <<connected, id_assigner, ping_id, echoed>>
            ELSE \* ConnectionFailed: cleanup and raise
                 /\ Dropped
                 /\ call' = Raised("ConnectionFailed")
                 /\ UNCHANGED op_id_to_op
    /\ UNCHANGED <<currently_running_ops, futures, uplink>>

\* mutant of CanPing: a PING is sent whether or not one is outstanding
CanPingAlways(pid) == TRUE

\* try_ping sends a PING only when ping_id is None
CanPing(pid) == pid = NoTid

\* try_ping once the connection was idle for 30 s, a tid being free
TryPing ==
    /\ UNCHANGED <<execVars, syncVars, obsVars, frameVars, restVars>>
    /\ connected
    /\ uplink = "running"
    /\ CanPing(ping_id)
    /\ id_assigner # Tids
    /\ \E tid \in Tids \ id_assigner :
           /\ ping_id' = tid
           /\ id_assigner' = id_assigner \cup {tid}
           /\ awaiting' = awaiting \cup {FrameOf(tid, "PING", 0)}
    /\ UNCHANGED <<connected, currently_running_ops, op_id_to_op, futures, call, uplink,
                   echoed>>

\* try_ping when allocate_int raises Empty: ConnectionFailed, user_method closes the
\* socket, and loop calls cleanup
TryPingExhausted ==
    /\ UNCHANGED <<execVars, syncVars, obsVars, frameVars, restVars>>
    /\ connected
    /\ uplink = "running"
    /\ CanPing(ping_id)
    /\ id_assigner = Tids
    /\ Dropped
    /\ UNCHANGED <<currently_running_ops, op_id_to_op, futures, call, uplink>>

\* inner_loop receiving the PING frame the server echoes: got_ping
RecvPing ==
    /\ UNCHANGED <<execVars, syncVars, obsVars, frameVars, restVars>>
    /\ connected
    /\ uplink = "running"
    /\ \E f \in awaiting :
           /\ f.type = "PING"
           /\ awaiting' = awaiting \ {f}
    /\ IF ping_id # NoTid
       THEN /\ id_assigner' = id_assigner \ {ping_id}
            /\ ping_id' = NoTid
       ELSE UNCHANGED <<id_assigner, ping_id>>
    /\ echoed' = TRUE
    /\ UNCHANGED <<connected, currently_running_ops, op_id_to_op, futures, call, uplink>>

\* inner_loop receiving DATA_STREAM_CONFIRM (confirm) or DATA_STREAM_REJECT for a
\* DATA_STREAM frame it sent
RecvSettle(confirm) ==
    /\ UNCHANGED <<execVars, syncVars, obsVars, frameVars, restVars>>
    /\ connected
    /\ uplink = "running"
    /\ \E f \in awaiting :
           /\ f.type = "DATA_STREAM"
           /\ awaiting' = awaiting \ {f}
           /\ IF f.tid \in DOMAIN op_id_to_op
              THEN LET fut == op_id_to_op[f.tid]
                   IN /\ op_id_to_op' = Restrict(op_id_to_op, DOMAIN op_id_to_op \ {f.tid})
                      /\ IF \E k \in 1..Len(currently_running_ops) :
                                currently_running_ops[k] = fut
                         THEN /\ currently_running_ops' = RemoveOp(currently_running_ops, fut)
                              /\ futures' = [futures EXCEPT
                                                ![fut] = IF confirm THEN "ok" ELSE "rejected"]
                              /\ UNCHANGED uplink
                         ELSE \* index_of finds nothing: ValueError ends the thread
                              /\ uplink' = "dead"
                              /\ UNCHANGED <<currently_running_ops, futures>>
              ELSE UNCHANGED <<op_id_to_op, currently_running_ops, futures, uplink>>
    /\ UNCHANGED <<connected, id_assigner, ping_id, call, echoed>>

\* NGTTConnection.close: stop the thread, close the socket, forget op_id_to_op
Close ==
    /\ UNCHANGED <<execVars, syncVars, obsVars, frameVars, restVars>>
    /\ uplink # "stopped"
    /\ uplink' = "stopped"
    /\ IF connected
       THEN /\ Dropped
            /\ op_id_to_op' = <<>>
       ELSE UNCHANGED <<connected, id_assigner, ping_id, awaiting, op_id_to_op, echoed>>
    /\ UNCHANGED <<currently_running_ops, futures, call>>

SyncPathpointsSendAny == \E taken \in BOOLEAN : SyncPathpointsSend(taken)
RecvSettleAny == \E confirm \in BOOLEAN : RecvSettle(confirm)

NextLink ==
    \/ Connect \/ LinkDown \/ Close
    \/ SyncPathpointsBegin \/ SyncPathpointsExhausted \/ SyncPathpointsSendAny
    \/ TryPing \/ TryPingExhausted \/ RecvPing \/ RecvSettleAny

(***************************************************************************)
(* Orders that arrive over NGTT: smok/sync_workers/ngtt.py, ngtt/orders.py *)
(***************************************************************************)
\* the order lists of the sections of an ORDER frame: one that waits for its
\* handlers' futures and one that is done at once
NgttOrderLists == {<<ReadOrder(ADVISE), WriteOrder(ADVISE)>>, <<MessageOrder>>}

\* the sections an ORDER frame can describe: Section.from_json of each element
SectionSpecs == [orders : NgttOrderLists, disposition : Dispositions]

\* the lists of n section descriptions
SectionLists(n) == [1..n -> SectionSpecs]

\* mutant of CallbackSection: confirm is attached to the first section's future
CallbackSectionFirst(first, n) == first

\* sections[-1] of the n sections numbered from first on
CallbackSection(first, n) == first + n - 1

\* Order(data, frame.tid, current_connection) of inner_loop
NewNgttOrder(tid, first, n) ==
    [tid |-> tid, confirmed |-> FALSE, sends |-> <<>>, first |-> first,
     last |-> first + n - 1, callback_on |-> CallbackSection(first, n)]

\* NGTTSyncWorker.process_orders for the Order of an ORDER frame with tid tid whose
\* data describes the sections of specs: sections_from_list, add_done_callback on
\* the future of the last one, put_many on the order queue
ProcessOrders(tid, specs) ==
    /\ UNCHANGED <<syncVars, obsVars, otherVars>>
    /\ nCreated + Len(specs) <= MaxSections
    /\ LET n == Len(specs)
           new == (nCreated + 1)..(nCreated + n)
           spec(x) == specs[x - nCreated]
           ids == UNION {OrderIds(x, spec(x).orders) : x \in new}
       IN /\ nCreated' = nCreated + n
          /\ section' = section @@ [x \in new |->
                                      NewSection(x, spec(x).orders, spec(x).disposition)]
          /\ order' = order @@ [o \in ids |->
                                  [kind |-> spec(o[1]).orders[o[2]].kind,
                                   advise |-> spec(o[1]).orders[o[2]].advise,
                                   repeat_count |-> InitialCount(spec(o[1]).orders[o[2]])]]
          /\ invoked' = invoked @@ [o \in ids |-> 0]
          /\ batchOf' = batchOf @@ [x \in new |-> {}]
          /\ queue' = queue \o [i \in 1..n |-> nCreated + i]
          /\ ngtt_orders' = Append(ngtt_orders, NewNgttOrder(tid, nCreated + 1, n))
    /\ UNCHANGED <<futDone, pc, cur, otc, terminating, hfut, started, okThenDispatched>>

\* the server numbers its ORDER frames as it sends them
ProcessOrdersAny ==
    \E n \in 1..(MaxSections - nCreated) : \E specs \in SectionLists(n) :
        ProcessOrders(Len(ngtt_orders) + 1, specs)

NextOrders ==
    ProcessOrdersAny \/ CancelAny \/ Loop \/ Collect \/ CompleteAny \/ Terminate \/ Stop

(***************************************************************************)
(* The frame codec and the receive buffer: ngtt/protocol.py,               *)
(* ngtt/uplink/connection.py                                                *)
(***************************************************************************)
\* NGTTHeaderType
PING == 0
ORDER == 1
ORDER_CONFIRM == 2
LOGS == 3
DATA_STREAM == 4
DATA_STREAM_CONFIRM == 5
DATA_STREAM_REJECT == 6
ORDER_REJECT == 9
FETCH_ORDERS == 10

NGTTHeaderType ==
    {PING, ORDER, ORDER_CONFIRM, LOGS, DATA_STREAM, DATA_STREAM_CONFIRM,
     DATA_STREAM_REJECT, ORDER_REJECT, FETCH_ORDERS}

\* STRUCT_LHH.size
HeaderSize == 8

\* the most bytes one socket.recv of recv_frame returns
RecvSize == 512

\* NGTTFrame(tid, packet_type, data)
NGTTFrame(tid, packet_type, data) == [tid |-> tid, packet_type |-> packet_type, data |-> data]

\* the bytes of an unsigned big-endian integer of n bytes
RECURSIVE BigEndian(_, _)
BigEndian(v, n) ==
    IF n = 0 THEN <<>> ELSE Append(BigEndian(v \div 256, n - 1), v % 256)

\* the unsigned big-endian integer of a sequence of bytes
RECURSIVE FromBigEndian(_)
FromBigEndian(b) ==
    IF b = <<>> THEN 0
    ELSE 256 * FromBigEndian(SubSeq(b, 1, Len(b) - 1)) + b[Len(b)]

\* STRUCT_LHH.pack(length, tid, h_type): '>LHH', for values within their fields
Pack(length, tid, h_type) ==
    BigEndian(length, 4) \o BigEndian(tid, 2) \o BigEndian(h_type, 2)

\* STRUCT_LHH.unpack of the first HeaderSize bytes of b
Unpack(b) ==
    [length |-> FromBigEndian(SubSeq(b, 1, 4)),
     tid |-> FromBigEndian(SubSeq(b, 5, 6)),
     h_type |-> FromBigEndian(SubSeq(b, 7, 8))]

\* b[lo:hi] of Python, for 0 <= lo
Slice(b, lo, hi) == SubSeq(b, lo + 1, IF hi < Len(b) THEN hi ELSE Len(b))

\* NGTTFrame.__len__
FrameLen(f) == HeaderSize + Len(f.data)

\* NGTTFrame.__bytes__
Bytes(f) == Pack(Len(f.data), f.tid, f.packet_type) \o f.data

\* what a decoder gives: the exception it raised ("none": it returned), the bytes
\* it says it consumed, and the frame it made (<<>>: None)
Decoded(raised, consumed, frames) ==
    [raised |-> raised, consumed |-> consumed, frame |-> frames]

\* NGTTFrame.from_bytes, for at least HeaderSize bytes
FromBytes(b) ==
    LET h == Unpack(b)
    IN IF h.h_type > DATA_STREAM_REJECT
       THEN Decoded("InvalidFrame", 0, <<>>)
       ELSE IF h.h_type \notin NGTTHeaderType
            THEN Decoded("ValueError", 0, <<>>)
            ELSE Decoded("none", 0,
                         <<NGTTFrame(h.tid, h.h_type,
                                     Slice(b, HeaderSize, HeaderSize + h.length))>>)

\* NGTTFrame.from_buffer
FromBuffer(b) ==
    IF Len(b) < HeaderSize
    THEN Decoded("none", 0, <<>>)
    ELSE LET h == Unpack(b)
         IN IF h.h_type \notin NGTTHeaderType
            THEN Decoded("ValueError", 0, <<>>)
            ELSE IF h.length = 0
                 THEN Decoded("none", HeaderSize, <<NGTTFrame(h.tid, h.h_type, <<>>)>>)
                 ELSE IF Len(b) < h.length + HeaderSize
                      THEN Decoded("none", 0, <<>>)
                      ELSE Decoded("none", h.length + HeaderSize,
                                   <<NGTTFrame(h.tid, h.h_type,
                                               Slice(b, HeaderSize,
                                                     HeaderSize + h.length))>>)

\* the payloads of up to n bytes over the bytes in B
RECURSIVE Payloads(_, _)
Payloads(B, n) ==
    IF n = 0 THEN {<<>>}
    ELSE Payloads(B, n - 1) \cup {Append(d, x) : d \in Payloads(B, n - 1), x \in B}

\* the frames that are encoded and decoded: the ends and the byte boundary of the
\* tid range, every packet type, payloads of bytes of every kind
CodecFrames ==
    {NGTTFrame(tid, t, d) : tid \in {0, 1, 255, 256, 65535}, t \in NGTTHeaderType,
                            d \in Payloads({0, 65, 255}, MaxPayload)}

\* nothing was encoded yet
NoCodec ==
    [bytes |-> <<>>, cut |-> 0, from_bytes |-> Decoded("none", 0, <<>>),
     from_buffer |-> Decoded("none", 0, <<>>)]

\* bytes(f), NGTTFrame.from_bytes of them, and NGTTFrame.from_buffer of a buffer
\* that holds their first cut bytes
Decode(f, cut) ==
    /\ UNCHANGED <<execVars, syncVars, obsVars, linkVars, restVars>>
    /\ codec = NoCodec
    /\ codec' = [bytes |-> Bytes(f), cut |-> cut, from_bytes |-> FromBytes(Bytes(f)),
                 from_buffer |-> FromBuffer(SubSeq(Bytes(f), 1, cut))]
    /\ UNCHANGED <<wire, sent, buffer, returned, rx>>

DecodeAny == \E f \in CodecFrames : \E cut \in 0..FrameLen(f) : Decode(f, cut)

NextCodec == DecodeAny

\* the frames the server sends to a receiving socket
WireFrames ==
    {NGTTFrame(tid, t, d) : tid \in {1, 2}, t \in {PING, DATA_STREAM_CONFIRM},
                            d \in Payloads({65}, MaxPayload)}

\* the bytes of a sequence of frames
RECURSIVE Concat(_)
Concat(fs) == IF fs = <<>> THEN <<>> ELSE Bytes(Head(fs)) \o Concat(Tail(fs))

\* del b[i] of Python for 0 <= i < len(b)
DelItem(b, i) == SubSeq(b, 1, i) \o SubSeq(b, i + 2, Len(b))

\* the server writes a frame to the connection
ServerSends(f) ==
    /\ UNCHANGED <<execVars, syncVars, obsVars, linkVars, restVars>>
    /\ Len(sent) < MaxFrames
    /\ sent' = Append(sent, f)
    /\ wire' = wire \o Bytes(f)
    /\ UNCHANGED <<buffer, returned, rx, codec>>

\* NGTTSocket.recv_frame when socket.recv returns the next n bytes
RecvFrame(n) ==
    /\ UNCHANGED <<execVars, syncVars, obsVars, linkVars, restVars>>
    /\ rx = "ok"
    /\ n \in 1..Len(wire)
    /\ n <= RecvSize
    /\ wire' = SubSeq(wire, n + 1, Len(wire))
    /\ LET extended == buffer \o SubSeq(wire, 1, n)
           result == FromBuffer(extended)
       IN IF result.raised # "none"
          THEN /\ buffer' = extended
               /\ rx' = result.raised
               /\ UNCHANGED returned
          ELSE IF result.frame = <<>>
               THEN /\ buffer' = extended
                    /\ UNCHANGED <<returned, rx>>
               ELSE IF result.consumed >= Len(extended)
                    THEN \* del self.buffer[length] past the end
                         /\ buffer' = extended
                         /\ rx' = "IndexError"
                         /\ UNCHANGED returned
                    ELSE /\ buffer' = DelItem(extended, result.consumed)
                         /\ returned' = Append(returned, result.frame[1])
                         /\ UNCHANGED rx
    /\ UNCHANGED <<sent, codec>>

ServerSendsAny == \E f \in WireFrames : ServerSends(f)
RecvFrameAny == \E n \in 1..Len(wire) : RecvFrame(n)

NextRecv == ServerSendsAny \/ RecvFrameAny

(***************************************************************************)
(* One pathpoint, its samples and the read and write orders dispatched to  *)
(* it: smok/pathpoint/pathpoint.py, smok/pathpoint/orders.py,              *)
(* smok/extras/pp_database/in_memory.py, smok/exceptions.py,               *)
(* smok/threads/executor.py                                                *)
(***************************************************************************)
\* Python's None where a number is expected
None == -1

\* OperationFailedReason(enum.Enum), by value
OperationFailedReason == {"malformed", "timeout", "invalid", "type"}

\* what a handler returns or raises, and what a Future ends with
NoneValue == [cls |-> "None", reason |-> "", value |-> 0]
Value(v) == [cls |-> "value", reason |-> "", value |-> v]
OperationFailedError(reason) == [cls |-> "OperationFailedError", reason |-> reason, value |-> 0]
\* NotReadedError.__init__: super().__init__(None, timestamp)
NotReadedError == [cls |-> "NotReadedError", reason |-> "None", value |-> 0]
OtherException == [cls |-> "Exception", reason |-> "", value |-> 0]

\* isinstance(x, OperationFailedError): NotReadedError is a subclass of it
IsOperationFailedError(x) == x.cls \in {"OperationFailedError", "NotReadedError"}

\* isinstance(x, NotReadedError)
IsNotReadedError(x) == x.cls = "NotReadedError"

\* the values handlers read, users set and orders write
ReadValues == {41}
SetValues == {40}
WrittenValues == {42}

\* the reasons handlers report
ReportedReasons == {"timeout", "invalid"}

Returned == {NoneValue} \cup {Value(v) : v \in ReadValues}
Raisable == {OperationFailedError(r) : r \in ReportedReasons} \cup {NotReadedError, OtherException}

\* a pathpoint that was not constructed yet
NoPathpoint ==
    [registered |-> FALSE, read_no_often_than |-> None, last_read |-> 0,
     current_timestamp |-> None, current_value |-> NoneValue]

\* mutant of Datapoint: a failure is stored like a value
DatapointAsValue(timestamp, x) ==
    [timestamp |-> timestamp, key |-> "value", error_code |-> "", value |-> x.value]

\* the datapoint dictionaries of InMemoryPathpointDatabase.on_new_data
Datapoint(timestamp, x) ==
    IF IsOperationFailedError(x)
    THEN [timestamp |-> timestamp, key |-> "error_code", error_code |-> x.reason, value |-> 0]
    ELSE [timestamp |-> timestamp, key |-> "value", error_code |-> "", value |-> x.value]

\* InMemoryPathpointDatabase.on_new_data on the list of one pathpoint:
\* value_or_exception.reason.value raises AttributeError when reason is None
PpOnNewData(values, timestamp, x) ==
    IF IsOperationFailedError(x) /\ x.reason = "None"
    THEN [raised |-> "AttributeError", values |-> values]
    ELSE IF values = <<>>
         THEN [raised |-> "none", values |-> <<Datapoint(timestamp, x)>>]
         ELSE IF values[1].timestamp < timestamp
              THEN [raised |-> "none", values |-> Append(values, Datapoint(timestamp, x))]
              ELSE [raised |-> "none", values |-> values]

\* InMemoryPathpointDatabase.get_current_value on the list of one pathpoint
GetCurrentValue(values) ==
    IF values = <<>>
    THEN [raised |-> "NotReadedError", reason |-> "None", timestamp |-> None, value |-> 0]
    ELSE LET lv == values[Len(values)]
         IN IF lv.key = "error_code"
            THEN [raised |-> "OperationFailedError", reason |-> lv.error_code,
                  timestamp |-> lv.timestamp, value |-> 0]
            ELSE [raised |-> "none", reason |-> "", timestamp |-> lv.timestamp,
                  value |-> lv.value]

\* InMemoryPathpointDatabase.get_data_to_sync for one pathpoint: a copy of its list
GetDataToSync(values) == values

\* Pathpoint.set_new_value(timestamp, value) at monotonic time mono
PathpointSetNewValue(pp, values, timestamp, x, mono) ==
    IF pp.current_timestamp # None /\ pp.current_timestamp >= timestamp
    THEN [raised |-> "none", pathpoint |-> pp, values |-> values]
    ELSE LET r == PpOnNewData(values, timestamp, x)
         IN IF r.raised # "none"
            THEN [raised |-> r.raised, pathpoint |-> pp, values |-> values]
            ELSE [raised |-> "none",
                  pathpoint |-> [pp EXCEPT !.current_timestamp = timestamp,
                                           !.current_value = x,
                                           !.last_read = mono],
                  values |-> r.values]

\* mutant of CanRead: a pathpoint may always be read
CanReadAlways(pp, mono) == TRUE

\* Pathpoint.can_read
CanRead(pp, mono) ==
    IF pp.read_no_often_than # None
    THEN mono - pp.last_read > pp.read_no_often_than
    ELSE TRUE

\* mutant of IsValid: stale_after is not looked at
IsValidAlways(stale_after, t) == TRUE

\* WriteOrder.is_valid at time t
IsValid(stale_after, t) ==
    IF stale_after = None THEN TRUE ELSE stale_after > t

\* no WriteOrder
NoWriteOrder ==
    [state |-> "none", value |-> 0, advise |-> ADVISE, stale_after |-> None,
     repeat_count |-> 0]

\* the clock advances
Tick ==
    /\ UNCHANGED <<coreVars, lateVars, logVars, closeVars, predVars>>
    /\ now < MaxClock
    /\ now' = now + 1
    /\ UNCHANGED <<pathpoint, pp_values, read_futures, write_order, executor, on_read_calls,
                   on_write_calls, skipped, dispatched>>

\* Pathpoint.__init__(device, name, read_no_often_than=d)
NewPathpoint(d) ==
    /\ UNCHANGED <<coreVars, lateVars, logVars, closeVars, predVars>>
    /\ ~pathpoint.registered
    /\ LET cv == GetCurrentValue(pp_values)
       IN pathpoint' =
            [registered |-> TRUE, read_no_often_than |-> d, last_read |-> 0,
             current_timestamp |-> cv.timestamp,
             current_value |->
                CASE cv.raised = "NotReadedError" -> NoneValue
                  [] cv.raised = "OperationFailedError" -> OperationFailedError(cv.reason)
                  [] OTHER -> Value(cv.value)]
    /\ UNCHANGED <<now, pp_values, read_futures, write_order, executor, on_read_calls,
                   on_write_calls, skipped, dispatched>>

\* Pathpoint.set_new_value(timestamp, value) called by a user thread
UserSetNewValue(timestamp, v) ==
    /\ UNCHANGED <<coreVars, lateVars, logVars, closeVars, predVars>>
    /\ pathpoint.registered
    /\ dispatched.sets < MaxSets
    /\ dispatched' = [dispatched EXCEPT !.sets = @ + 1]
    /\ LET r == PathpointSetNewValue(pathpoint, pp_values, timestamp, Value(v), now)
       IN pathpoint' = r.pathpoint /\ pp_values' = r.values
    /\ UNCHANGED <<now, read_futures, write_order, executor, on_read_calls, on_write_calls,
                   skipped>>

\* pp_database.on_new_data(name, timestamp, value) called by a user thread
UserOnNewData(timestamp, v) ==
    /\ UNCHANGED <<coreVars, lateVars, logVars, closeVars, predVars>>
    /\ dispatched.sets < MaxSets
    /\ dispatched' = [dispatched EXCEPT !.sets = @ + 1]
    /\ pp_values' = PpOnNewData(pp_values, timestamp, Value(v)).values
    /\ UNCHANGED <<now, pathpoint, read_futures, write_order, executor, on_read_calls,
                   on_write_calls, skipped>>

\* the ReadOrder branch of process_orders for one order; the handler, if it is
\* called, returns a Future (how = "future"), returns x or raises x
DispatchRead(how, x) ==
    /\ UNCHANGED <<coreVars, lateVars, logVars, closeVars, predVars>>
    /\ executor = "running"
    /\ pathpoint.registered
    /\ dispatched.reads < MaxReads
    /\ dispatched' = [dispatched EXCEPT !.reads = @ + 1]
    /\ IF ~CanRead(pathpoint, now)
       THEN UNCHANGED <<pathpoint, pp_values, read_futures, executor, on_read_calls>>
       ELSE /\ on_read_calls' = Append(on_read_calls, now)
            /\ CASE how = "future" ->
                      /\ read_futures' = read_futures + 1
                      /\ UNCHANGED <<pathpoint, pp_values, executor>>
                 [] how = "return" /\ x.cls = "None" ->
                      UNCHANGED <<pathpoint, pp_values, read_futures, executor>>
                 [] how = "raise" /\ ~IsOperationFailedError(x) ->
                      UNCHANGED <<pathpoint, pp_values, read_futures, executor>>
                 [] OTHER ->
                      LET r == PathpointSetNewValue(pathpoint, pp_values, now, x, now)
                      IN /\ pathpoint' = r.pathpoint
                         /\ pp_values' = r.values
                         /\ executor' = IF r.raised # "none" THEN "dead" ELSE executor
                         /\ UNCHANGED read_futures
    /\ UNCHANGED <<now, write_order, on_write_calls, skipped>>

\* on_read_completed, the done callback of a read Future that returned x or raised x
CompleteRead(how, x) ==
    /\ UNCHANGED <<coreVars, lateVars, logVars, closeVars, predVars>>
    /\ read_futures > 0
    /\ read_futures' = read_futures - 1
    /\ IF \/ how = "return" /\ x.cls = "None"
          \/ how = "raise" /\ ~IsOperationFailedError(x)
          \/ how = "raise" /\ IsNotReadedError(x)
       THEN UNCHANGED <<pathpoint, pp_values>>
       ELSE LET r == PathpointSetNewValue(pathpoint, pp_values, now, x, now)
            IN pathpoint' = r.pathpoint /\ pp_values' = r.values
    /\ UNCHANGED <<now, write_order, executor, on_read_calls, on_write_calls, skipped,
                   dispatched>>

\* a section with WriteOrder(name, v, advise, stale_after) reaches the executor
ExecuteWrite(v, advise, stale_after) ==
    /\ UNCHANGED <<coreVars, lateVars, logVars, closeVars, predVars>>
    /\ executor = "running"
    /\ pathpoint.registered
    /\ write_order.state \in {"none", "done"}
    /\ dispatched.writes < MaxWrites
    /\ dispatched' = [dispatched EXCEPT !.writes = @ + 1]
    /\ write_order' = [state |-> "queued", value |-> v, advise |-> advise,
                       stale_after |-> stale_after,
                       repeat_count |-> WriteRepeatCount(advise)]
    /\ UNCHANGED <<now, pathpoint, pp_values, read_futures, executor, on_read_calls,
                   on_write_calls, skipped>>

\* the WriteOrder branch of a pass of process_orders; the handler, if it is called,
\* returns None, returns a Future or raises
DispatchWrite(how) ==
    /\ UNCHANGED <<coreVars, lateVars, logVars, closeVars, predVars>>
    /\ executor = "running"
    /\ write_order.state = "queued"
    /\ IF ~IsValid(write_order.stale_after, now)
       THEN /\ skipped' = skipped \cup {write_order.stale_after}
            /\ write_order' = [write_order EXCEPT !.state = "done"]
            /\ UNCHANGED <<on_write_calls, executor>>
       ELSE /\ on_write_calls' = on_write_calls \cup
                                   {[at |-> now, stale_after |-> write_order.stale_after]}
            /\ write_order' = [write_order EXCEPT
                                 !.state = IF how = "future" THEN "waiting" ELSE "done"]
            /\ executor' = IF how = "raise" THEN "dead" ELSE executor
            /\ UNCHANGED skipped
    /\ UNCHANGED <<now, pathpoint, pp_values, read_futures, on_read_calls, dispatched>>

\* the write Future ends: on_write_completed, then the zip loop of process_orders
CompleteWrite(outcome) ==
    /\ UNCHANGED <<coreVars, lateVars, logVars, closeVars, predVars>>
    /\ executor = "running"
    /\ write_order.state = "waiting"
    /\ IF outcome \in {"OperationFailedError", "ResponseError"}
       THEN LET c == write_order.repeat_count - 1
            IN write_order' = [write_order EXCEPT
                                 !.repeat_count = c,
                                 !.state = IF Requeue(c) THEN "queued" ELSE "done"]
       ELSE write_order' = [write_order EXCEPT !.state = "done"]
    /\ UNCHANGED <<now, pathpoint, pp_values, read_futures, executor, on_read_calls,
                   on_write_calls, skipped, dispatched>>

\* what a write Future ends with
WriteOutcomes == {"ok", "OperationFailedError", "ResponseError", "Exception"}

\* the values of read_no_often_than and of stale_after
Throttles == {None} \cup 1..(MaxClock - 2)
StaleAfters == {None} \cup 1..MaxClock

NewPathpointAny == \E d \in Throttles : NewPathpoint(d)
UserSetNewValueAny == \E t \in 1..MaxClock, v \in SetValues : UserSetNewValue(t, v)
UserOnNewDataAny == \E t \in 1..MaxClock, v \in SetValues : UserOnNewData(t, v)
ReadReturns == \E x \in Returned : DispatchRead("return", x)
ReadRaises == \E x \in Raisable : DispatchRead("raise", x)
ReadReturnsFuture == DispatchRead("future", NoneValue)
ReadFutureReturns == \E x \in Returned : CompleteRead("return", x)
ReadFutureRaises == \E x \in Raisable : CompleteRead("raise", x)
ExecuteWriteAny ==
    \E v \in WrittenValues, a \in AdviseLevels, s \in StaleAfters : ExecuteWrite(v, a, s)
DispatchWriteAny == \E how \in {"none", "future", "raise"} : DispatchWrite(how)
CompleteWriteAny == \E outcome \in WriteOutcomes : CompleteWrite(outcome)

NextReads ==
    Tick \/ NewPathpointAny \/ UserSetNewValueAny \/ UserOnNewDataAny \/ ReadReturns
    \/ ReadRaises \/ ReadReturnsFuture \/ ReadFutureReturns \/ ReadFutureRaises

NewPathpointUnthrottled == NewPathpoint(None)

NextWrites ==
    Tick \/ NewPathpointUnthrottled \/ ExecuteWriteAny \/ DispatchWriteAny
    \/ CompleteWriteAny

(***************************************************************************)
(* The log queue, SMOKLogHandler.emit and the log publisher thread:        *)
(* smok/logging.py, smok/threads/log_publisher.py                          *)
(***************************************************************************)
MAX_LOG_BUFFER_SIZE == 20000

\* the threads that log through the SMOKLogHandler of the device
Emitters == 1..MaxEmitters

\* The queue holds records in the order they were put. A queue is written as the
\* list of its runs <<first, last>> of consecutively issued records.
RECURSIVE QSize(_)
QSize(q) == IF q = <<>> THEN 0 ELSE (q[1][2] - q[1][1] + 1) + QSize(Tail(q))

\* queue.Queue.put of record number r
Put(q, r) ==
    IF q # <<>> /\ q[Len(q)][2] + 1 = r
    THEN [q EXCEPT ![Len(q)] = <<q[Len(q)][1], r>>]
    ELSE Append(q, <<r, r>>)

\* queue.Queue.get: the queue without its oldest record
Get(q) ==
    IF q[1][1] = q[1][2] THEN Tail(q) ELSE [q EXCEPT ![1] = <<q[1][1] + 1, q[1][2]>>]

\* n times queue.Queue.get
RECURSIVE GetN(_, _)
GetN(q, n) == IF n = 0 THEN q ELSE GetN(Get(q), n - 1)

\* the oldest and the newest record of a queue that is not empty
Oldest(q) == q[1][1]
Newest(q) == q[Len(q)][2]

\* mutant of CanEmit: a full queue still takes a record
CanEmitWhenFull(qsize) == qsize <= MAX_LOG_BUFFER_SIZE

\* the test of SMOKLogHandler.emit
CanEmit(qsize) == qsize < MAX_LOG_BUFFER_SIZE

\* n records are logged one after the other before the publisher thread runs
\* (delayed boot): n op_calls of emit on an empty queue
Backlog(n) ==
    /\ UNCHANGED <<coreVars, lateVars, ioVars, closeVars, predVars>>
    /\ issued = 0 /\ holder = 0 /\ log_pc = "get"
    /\ n <= MAX_LOG_BUFFER_SIZE
    /\ issued' = n
    /\ log_queue' = <<<<1, n>>>>
    /\ UNCHANGED <<allow_sync, holder, emits, log_pc, log_terminating, loops>>

\* logging.Handler.handle takes the handler's lock and op_calls SMOKLogHandler.emit,
\* which tests the queue size; a record that finds the queue full is dropped
EmitTest(e) ==
    /\ UNCHANGED <<coreVars, lateVars, ioVars, closeVars, predVars>>
    /\ holder = 0
    /\ emits < MaxEmits
    /\ emits' = emits + 1
    /\ issued' = issued + 1
    /\ holder' = IF CanEmit(QSize(log_queue)) THEN e ELSE 0
    /\ UNCHANGED <<allow_sync, log_queue, log_pc, log_terminating, loops>>

\* the rest of emit: record_to_json and, unless it returned None, queue.put
EmitPut(e, le_is_none) ==
    /\ UNCHANGED <<coreVars, lateVars, ioVars, closeVars, predVars>>
    /\ holder = e
    /\ holder' = 0
    /\ log_queue' = IF le_is_none THEN log_queue ELSE Put(log_queue, issued)
    /\ UNCHANGED <<allow_sync, issued, emits, log_pc, log_terminating, loops>>

\* SMOKLogHandler.prune_the_queue, called on memory pressure
PruneTheQueue ==
    /\ UNCHANGED <<coreVars, lateVars, ioVars, closeVars, predVars>>
    /\ log_queue # <<>>
    /\ log_queue' = <<>>
    /\ UNCHANGED <<allow_sync, issued, holder, emits, log_pc, log_terminating, loops>>

\* user code assigns SMOKDevice.allow_sync
SetAllowSync(b) ==
    /\ UNCHANGED <<coreVars, lateVars, ioVars, closeVars, predVars>>
    /\ allow_sync # b
    /\ allow_sync' = b
    /\ UNCHANGED <<log_queue, issued, holder, emits, log_pc, log_terminating, loops>>

\* TerminableThread.run and queue_get: a record is taken and loop(msg) starts
PublisherGet ==
    /\ UNCHANGED <<coreVars, lateVars, ioVars, closeVars, predVars>>
    /\ log_pc = "get"
    /\ ~log_terminating
    /\ log_queue # <<>>
    /\ loops < MaxLoops
    /\ loops' = loops + 1
    /\ log_queue' = Get(log_queue)
    /\ log_pc' = "sleep"
    /\ UNCHANGED <<allow_sync, issued, holder, emits, log_terminating>>

\* loop: safe_sleep(1) ends, by its timeout or because terminate was called
PublisherSleep ==
    /\ UNCHANGED <<coreVars, lateVars, ioVars, closeVars, predVars>>
    /\ log_pc = "sleep"
    /\ log_pc' = "hold"
    /\ UNCHANGED <<allow_sync, log_queue, issued, holder, emits, log_terminating, loops>>

\* loop: one evaluation of `while not self.device.allow_sync` and, inside it, of
\* `while self.queue.qsize() > MAX_LOG_BUFFER_SIZE: self.queue.get()`
PublisherHold ==
    /\ UNCHANGED <<coreVars, lateVars, ioVars, closeVars, predVars>>
    /\ log_pc = "hold"
    /\ IF allow_sync
       THEN log_pc' = "send" /\ UNCHANGED log_queue
       ELSE /\ log_pc' = "hold"
            /\ log_queue' = IF QSize(log_queue) > MAX_LOG_BUFFER_SIZE
                            THEN Get(log_queue) ELSE log_queue
    /\ UNCHANGED <<allow_sync, issued, holder, emits, log_terminating, loops>>

\* loop after the hold: return if terminating, else get_all_messages takes n more
\* records and sync sends them
PublisherSend(n) ==
    /\ UNCHANGED <<coreVars, lateVars, ioVars, closeVars, predVars>>
    /\ log_pc = "send"
    /\ n <= QSize(log_queue)
    /\ log_queue' = IF log_terminating THEN log_queue ELSE GetN(log_queue, n)
    /\ log_pc' = "get"
    /\ UNCHANGED <<allow_sync, issued, holder, emits, log_terminating, loops>>

\* TerminableThread.run leaves its loop: cleanup, which sends what is queued if
\* allow_sync is set
PublisherExit ==
    /\ UNCHANGED <<coreVars, lateVars, ioVars, closeVars, predVars>>
    /\ log_pc = "get"
    /\ log_terminating
    /\ log_queue' = IF allow_sync THEN <<>> ELSE log_queue
    /\ log_pc' = "stopped"
    /\ UNCHANGED <<allow_sync, issued, holder, emits, log_terminating, loops>>

BacklogAny == \E n \in {1, MAX_LOG_BUFFER_SIZE - 1} : Backlog(n)
EmitTestAny == \E e \in Emitters : EmitTest(e)
EmitPutAny == \E e \in Emitters, le_is_none \in BOOLEAN : EmitPut(e, le_is_none)
SetAllowSyncAny == \E b \in BOOLEAN : SetAllowSync(b)
PublisherSendAny == \E n \in 0..MaxDrain : PublisherSend(n)

(***************************************************************************)
(* The agent facade: close(), the worker threads it joins and the public   *)
(* operations: smok/client/client.py                                       *)
(***************************************************************************)
\* the worker threads beside the log publisher
WorkerNames == {"executor", "getter", "arch_and_macros"}

\* the public operations of SMOKDevice, whether they are decorated with
\* must_be_open, and the part of the device they change when they run
PublicOperations ==
    { [name |-> "log_sensor_write", must_be_open |-> TRUE, changes |-> "sensor_writes",
        needs_sync |-> FALSE],
      [name |-> "get_baob", must_be_open |-> TRUE, changes |-> "nothing",
        needs_sync |-> FALSE],
      [name |-> "wait_until_synced", must_be_open |-> FALSE, changes |-> "nothing",
        needs_sync |-> FALSE],
      [name |-> "open_event", must_be_open |-> TRUE, changes |-> "events",
        needs_sync |-> FALSE],
      [name |-> "execute", must_be_open |-> FALSE, changes |-> "order_queue",
        needs_sync |-> FALSE],
      [name |-> "get_pathpoint", must_be_open |-> TRUE, changes |-> "pathpoints",
        needs_sync |-> FALSE],
      [name |-> "register_pathpoint", must_be_open |-> TRUE, changes |-> "pathpoints",
        needs_sync |-> FALSE],
      [name |-> "get_device_info", must_be_open |-> TRUE, changes |-> "nothing",
        needs_sync |-> TRUE],
      [name |-> "get_local_time", must_be_open |-> TRUE, changes |-> "nothing",
        needs_sync |-> FALSE] }

NoCallYet == [name |-> "none", raised |-> "none"]

\* must_be_open: the call raises RuntimeError
MustBeOpen(op, is_closed) == op.must_be_open /\ is_closed

\* a user thread op_calls a public operation
Call(op) ==
    /\ UNCHANGED <<coreVars, lateVars, ioVars, logVars, predVars>>
    /\ op_calls < MaxCalls
    /\ op_calls' = op_calls + 1
    /\ IF MustBeOpen(op, dev_closed) \/ (op.needs_sync /\ ~allow_sync)
       THEN /\ last_call' = [name |-> op.name, raised |-> "RuntimeError"]
            /\ UNCHANGED device_state
       ELSE /\ last_call' = [name |-> op.name, raised |-> "none"]
            /\ device_state' = IF op.changes = "nothing" THEN device_state
                               ELSE [device_state EXCEPT ![op.changes] = @ + 1]
    /\ UNCHANGED <<dev_closed, close_pc, workers, worker_terminating>>

\* SMOKDevice.close up to its first join: Closeable.close, then terminate() of the
\* executor, the getter, the log publisher and arch_and_macros
DeviceClose ==
    /\ UNCHANGED <<coreVars, lateVars, ioVars, predVars>>
    /\ ~dev_closed
    /\ dev_closed' = TRUE
    /\ close_pc' = "joining"
    /\ worker_terminating' = TRUE
    /\ log_terminating' = TRUE
    /\ UNCHANGED <<workers, device_state, last_call, op_calls>>
    /\ UNCHANGED <<allow_sync, log_queue, issued, holder, emits, log_pc, loops>>

\* SMOKDevice.close: the joins of the four threads return
CloseReturns ==
    /\ UNCHANGED <<coreVars, lateVars, ioVars, logVars, predVars>>
    /\ close_pc = "joining"
    /\ \A w \in WorkerNames : workers[w] = "stopped"
    /\ log_pc = "stopped"
    /\ close_pc' = "returned"
    /\ UNCHANGED <<dev_closed, workers, worker_terminating, device_state, last_call, op_calls>>

\* a worker enters one of its waits: queue_get, wait(futures, 5), safe_sleep,
\* Condition.wait(timeout)
WorkerWaits(w) ==
    /\ UNCHANGED <<coreVars, lateVars, ioVars, logVars, predVars>>
    /\ workers[w] = "running"
    /\ ~worker_terminating
    /\ workers' = [workers EXCEPT ![w] = "waiting"]
    /\ UNCHANGED <<dev_closed, close_pc, worker_terminating, device_state, last_call, op_calls>>

\* the wait ends: its timeout ran out, what it waited for happened, or safe_sleep
\* saw the terminating flag
WorkerResumes(w) ==
    /\ UNCHANGED <<coreVars, lateVars, ioVars, logVars, predVars>>
    /\ workers[w] = "waiting"
    /\ workers' = [workers EXCEPT ![w] = "running"]
    /\ UNCHANGED <<dev_closed, close_pc, worker_terminating, device_state, last_call, op_calls>>

\* the loops of the worker test the terminating flag and TerminableThread.run ends
WorkerStops(w) ==
    /\ UNCHANGED <<coreVars, lateVars, ioVars, logVars, predVars>>
    /\ workers[w] = "running"
    /\ worker_terminating
    /\ workers' = [workers EXCEPT ![w] = "stopped"]
    /\ UNCHANGED <<dev_closed, close_pc, worker_terminating, device_state, last_call, op_calls>>

CallAny == \E op \in PublicOperations : Call(op)
WorkerWaitsAny == \E w \in WorkerNames : WorkerWaits(w)
WorkerResumesAny == \E w \in WorkerNames : WorkerResumes(w)
WorkerStopsAny == \E w \in WorkerNames : WorkerStops(w)

(***************************************************************************)
(* Silencing of a predicate: smok/predicate/base.py                        *)
(***************************************************************************)
\* Time.to_tuple, and (t.isoweekday(), t.hour, t.minute) of a datetime: the local
\* times and window endpoints considered are Mon 09:00, Mon 17:00, Mon 17:01 and
\* Fri 22:00
Times == {<<1, 9, 0>>, <<1, 17, 0>>, <<1, 17, 1>>, <<5, 22, 0>>}

\* DisabledTime(start, stop)
DisabledTimes == [start : Times, stop : Times]

\* Python's <= on tuples of three integers
TupleLeq(a, b) ==
    \/ a[1] < b[1]
    \/ a[1] = b[1] /\ a[2] < b[2]
    \/ a[1] = b[1] /\ a[2] = b[2] /\ a[3] <= b[3]

\* DisabledTime.is_in_time
IsInTime(period, t) == TupleLeq(period.start, t) /\ TupleLeq(t, period.stop)

\* the silencing lists of up to n periods
RECURSIVE SilencingLists(_)
SilencingLists(n) ==
    IF n = 0 THEN {<<>>}
    ELSE LET shorter == SilencingLists(n - 1)
         IN shorter \cup {Append(l, p) : l \in {x \in shorter : Len(x) = n - 1},
                                          p \in DisabledTimes}

NoPredicate == [created |-> FALSE, silencing |-> <<>>]

\* BaseStatistic.__init__(device, predicate_id, verbose_name, silencing, ...)
NewPredicate(silencing) ==
    /\ UNCHANGED <<coreVars, lateVars, ioVars, logVars, closeVars>>
    /\ ~predicate.created
    /\ predicate' = [created |-> TRUE, silencing |-> silencing]
    /\ UNCHANGED <<localtime, evt_events, evt_returned, opened>>

\* the local time of the device becomes t
LocalTime(t) ==
    /\ UNCHANGED <<coreVars, lateVars, ioVars, logVars, closeVars>>
    /\ localtime # t
    /\ localtime' = t
    /\ UNCHANGED <<predicate, evt_events, evt_returned, opened>>

\* BaseStatistic.open_event(msg, color)
OpenEvent ==
    /\ UNCHANGED <<coreVars, lateVars, ioVars, logVars, closeVars>>
    /\ predicate.created
    /\ opened < MaxOpens
    /\ opened' = opened + 1
    /\ IF \E k \in DOMAIN predicate.silencing : IsInTime(predicate.silencing[k], localtime)
       THEN evt_returned' = "None" /\ UNCHANGED evt_events
       ELSE evt_returned' = "Event" /\ evt_events' = evt_events + 1
    /\ UNCHANGED <<predicate, localtime>>

NewPredicateAny == \E silencing \in SilencingLists(MaxPeriods) : NewPredicate(silencing)
LocalTimeAny == \E t \in Times : LocalTime(t)

NextLog ==
    BacklogAny \/ EmitTestAny \/ EmitPutAny \/ PruneTheQueue \/ SetAllowSyncAny
    \/ PublisherGet \/ PublisherSleep \/ PublisherHold \/ PublisherSendAny \/ PublisherExit
    \/ DeviceClose

NextClose ==
    DeviceClose \/ CloseReturns \/ WorkerWaitsAny \/ WorkerResumesAny \/ WorkerStopsAny
    \/ SetAllowSyncAny \/ EmitTestAny \/ EmitPutAny \/ PublisherGet \/ PublisherSleep
    \/ PublisherHold \/ PublisherSendAny \/ PublisherExit

NextCalls == CallAny \/ DeviceClose \/ SetAllowSyncAny

NextPredicate == NewPredicateAny \/ LocalTimeAny \/ OpenEvent

(***************************************************************************)
(* Events and their acknowledgement: smok/predicate/event.py,              *)
(* smok/extras/event_database/in_memory.py, smok/threads/communicator.py   *)
(***************************************************************************)
\* uuid.uuid4().hex of the event number e made by SMOKDevice.open_event
ClientUuid(e) == 100 + e

\* the k-th UUID of a response of the server that has assigned n UUIDs before
ServerUuid(n, k) == 200 + n + k

\* the response to a request of n events: data['uuid'] for data in resp
RECURSIVE ServerUuids(_, _)
ServerUuids(issued_before, n) ==
    IF n = 0 THEN <<>>
    ELSE Append(ServerUuids(issued_before, n - 1), ServerUuid(issued_before, n))

\* list.remove(e): the list without the first element equal to e
RECURSIVE ListRemove(_, _)
ListRemove(l, e) ==
    IF l = <<>> THEN <<>>
    ELSE IF Head(l) = e THEN Tail(l)
    ELSE <<Head(l)>> \o ListRemove(Tail(l), e)

\* InMemoryEventSynchronization.acknowledge(*uuids): zip(self.events, uuids) with the
\* list iterator at position i, self.events being the events_to_sync list of the
\* database, from which the closed events are removed meanwhile
RECURSIVE EventsAcknowledge(_, _, _, _, _)
EventsAcknowledge(objs, events, i, uuids, taken) ==
    IF i > Len(events) \/ taken + 1 > Len(uuids)
    THEN [objs |-> objs, events |-> events]
    ELSE LET e == events[i]
             with_uuid == IF objs[e].uuid = None
                          THEN [objs EXCEPT ![e].uuid = uuids[taken + 1]] ELSE objs
         IN IF with_uuid[e].closed
            THEN EventsAcknowledge(with_uuid, ListRemove(events, e), i + 1, uuids, taken + 1)
            ELSE EventsAcknowledge(with_uuid, events, i + 1, uuids, taken + 1)

\* SMOKDevice.open_event (the event has a uuid4) or BaseStatistic.open_event (uuid
\* None), with ended_on given or not, then InMemoryEventDatabase.add_event
EvOpen(has_uuid, ended) ==
    /\ UNCHANGED notEvdb
    /\ Len(event_objs) < MaxCreated
    /\ LET e == Len(event_objs) + 1
       IN /\ event_objs' = Append(event_objs,
                                  [uuid |-> IF has_uuid THEN ClientUuid(e) ELSE None,
                                   closed |-> ended])
          /\ evt_pending' = Append(evt_pending, e)
    /\ UNCHANGED <<evt_sent, uuids_issued, evt_passes>>

\* SMOKDevice.close_event(event), then InMemoryEventDatabase.close_event
EvClose(e) ==
    /\ UNCHANGED notEvdb
    /\ e \in DOMAIN event_objs
    /\ ~event_objs[e].closed
    /\ event_objs' = [event_objs EXCEPT ![e].closed = TRUE]
    /\ evt_pending' = Append(evt_pending, e)
    /\ UNCHANGED <<evt_sent, uuids_issued, evt_passes>>

\* sync_events up to its request: get_events_to_sync and the to_json of every event
EvGetToSync ==
    /\ UNCHANGED notEvdb
    /\ evt_sent = <<>>
    /\ evt_pending # <<>>
    /\ evt_passes < MaxPasses
    /\ evt_passes' = evt_passes + 1
    /\ evt_sent' = [k \in 1..Len(evt_pending) |->
                       [event |-> evt_pending[k], closed |-> event_objs[evt_pending[k]].closed]]
    /\ UNCHANGED <<event_objs, evt_pending, uuids_issued>>

\* sync_events: the server answered with one UUID per event sent; acknowledge
EvAcknowledge ==
    /\ UNCHANGED notEvdb
    /\ evt_sent # <<>>
    /\ LET r == EventsAcknowledge(event_objs, evt_pending, 1,
                                  ServerUuids(uuids_issued, Len(evt_sent)), 0)
       IN /\ event_objs' = r.objs
          /\ evt_pending' = r.events
    /\ uuids_issued' = uuids_issued + Len(evt_sent)
    /\ evt_sent' = <<>>
    /\ UNCHANGED evt_passes

\* sync_events: the request failed; negative_acknowledge does nothing
EvNegativeAcknowledge ==
    /\ UNCHANGED notEvdb
    /\ evt_sent # <<>>
    /\ evt_sent' = <<>>
    /\ UNCHANGED <<event_objs, evt_pending, uuids_issued, evt_passes>>

EvOpenAny == \E has_uuid \in BOOLEAN, ended \in BOOLEAN : EvOpen(has_uuid, ended)
EvCloseAny == \E e \in 1..MaxCreated : EvClose(e)

NextEvents == EvOpenAny \/ EvCloseAny \/ EvGetToSync \/ EvAcknowledge \/ EvNegativeAcknowledge

(***************************************************************************)
(* Synchronization of the BAOBs: smok/threads/communicator.py, smok/baob.py *)
(***************************************************************************)
BAOB_SYNC_INTERVAL == 3600

\* time passes
BaobTick(d) ==
    /\ UNCHANGED notBaob
    /\ baob_ticks < MaxBaobTicks
    /\ baob_ticks' = baob_ticks + 1
    /\ baob_mono' = baob_mono + d
    /\ UNCHANGED <<last_baob_synced, baob_passes, baob_hooks, baob_completed>>

\* CommunicatorThread.loop finds the BAOBs due and calls sync_baob; the server asks
\* for n_download keys to be downloaded; ok: no request of the pass failed
SyncBaob(n_download, ok) ==
    /\ UNCHANGED notBaob
    /\ baob_mono - last_baob_synced > BAOB_SYNC_INTERVAL
    /\ baob_passes < MaxBaobPasses
    /\ baob_passes' = baob_passes + 1
    /\ baob_hooks' = IF Truthy(last_baob_synced) THEN baob_hooks + n_download ELSE baob_hooks
    /\ last_baob_synced' = IF ok THEN baob_mono ELSE last_baob_synced
    /\ baob_completed' = IF ok THEN baob_completed + 1 ELSE baob_completed
    /\ UNCHANGED <<baob_mono, baob_ticks>>

\* SMOKDevice.execute_sysctl('baob-updated' or 'baob-created', args), called by the
\* order executor
BaobSysctl ==
    /\ UNCHANGED notBaob
    /\ last_baob_synced # 0
    /\ last_baob_synced' = 0
    /\ UNCHANGED <<baob_mono, baob_passes, baob_hooks, baob_completed, baob_ticks>>

\* the setter of BAOB.value
BaobSetValue ==
    /\ UNCHANGED notBaob
    /\ last_baob_synced # 1
    /\ last_baob_synced' = 1
    /\ UNCHANGED <<baob_mono, baob_passes, baob_hooks, baob_completed, baob_ticks>>

BaobTickAny == \E d \in {1, BAOB_SYNC_INTERVAL + 1} : BaobTick(d)
SyncBaobAny == \E n_download \in 0..MaxDownloads, ok \in BOOLEAN : SyncBaob(n_download, ok)

NextBaobs == BaobTickAny \/ SyncBaobAny \/ BaobSysctl \/ BaobSetValue

(***************************************************************************)
(* Synchronization of the predicates: smok/threads/communicator.py         *)
(***************************************************************************)
PredicateIds == 1..MaxPredicates

\* the lists of up to n predicates with their online flag
RECURSIVE PredicateLists(_)
PredicateLists(n) ==
    IF n = 0 THEN {<<>>}
    ELSE LET shorter == PredicateLists(n - 1)
         IN shorter \cup
            {Append(l, [predicate_id |-> i, online |-> o]) :
                l \in {x \in shorter : Len(x) = n - 1},
                i \in PredicateIds, o \in BOOLEAN}

\* what the server answers to GET /v1/device/predicates: every predicate once
PredicateResponses ==
    {l \in PredicateLists(MaxPredicates) :
        \A j, k \in DOMAIN l : j # k => l[j].predicate_id # l[k].predicate_id}

\* the ids a response reports as online
OnlineIn(resp) == {resp[k].predicate_id : k \in {j \in DOMAIN resp : resp[j].online}}

NoOfflineCalls == [i \in PredicateIds |-> 0]

\* sync_predicates: the GET succeeded with response resp
SyncPredicatesGet(resp) ==
    /\ UNCHANGED notPsync
    /\ psync_pc = "idle"
    /\ psync_passes < MaxPredPasses
    /\ psync_passes' = psync_passes + 1
    /\ psync_pc' = "for"
    /\ pred_resp' = resp
    /\ pred_pos' = 1
    /\ predicates_found' = {}
    /\ offline_calls' = NoOfflineCalls
    /\ preds_before' = local_preds
    /\ UNCHANGED <<local_preds, pred_resets>>

\* one turn of `for predicate_dict in resp`
SyncPredicatesEntry ==
    /\ UNCHANGED notPsync
    /\ psync_pc = "for"
    /\ pred_pos <= Len(pred_resp)
    /\ LET predicate_id == pred_resp[pred_pos].predicate_id
       IN /\ predicates_found' = predicates_found \cup {predicate_id}
          /\ IF ~pred_resp[pred_pos].online
             THEN IF predicate_id \in local_preds
                  THEN /\ offline_calls' = [offline_calls EXCEPT ![predicate_id] = @ + 1]
                       /\ local_preds' = local_preds \ {predicate_id}
                  ELSE UNCHANGED <<offline_calls, local_preds>>
             ELSE /\ local_preds' = local_preds \cup {predicate_id}
                  /\ UNCHANGED offline_calls
    /\ pred_pos' = pred_pos + 1
    /\ UNCHANGED <<psync_pc, pred_resp, preds_before, psync_passes, pred_resets>>

\* predicates_to_delete
ToDelete(keys, found) == keys \ found

\* the end of the pass: the predicates absent from the response are deleted after
\* on_offline, and last_predicates_synced is set
SyncPredicatesFinish ==
    /\ UNCHANGED notPsync
    /\ psync_pc = "for"
    /\ pred_pos > Len(pred_resp)
    /\ LET predicates_to_delete == ToDelete(local_preds, predicates_found)
       IN /\ offline_calls' = [i \in PredicateIds |->
                                 IF i \in predicates_to_delete THEN offline_calls[i] + 1
                                 ELSE offline_calls[i]]
          /\ local_preds' = local_preds \ predicates_to_delete
    /\ psync_pc' = "idle"
    /\ UNCHANGED <<pred_resp, pred_pos, predicates_found, preds_before, psync_passes,
                   pred_resets>>

\* SMOKDevice.reset_predicates, called by a user thread
ResetPredicates ==
    /\ UNCHANGED notPsync
    /\ pred_resets < MaxResets
    /\ pred_resets' = pred_resets + 1
    /\ local_preds' = {}
    /\ UNCHANGED <<psync_pc, pred_resp, pred_pos, predicates_found, offline_calls,
                   preds_before, psync_passes>>

SyncPredicatesGetAny == \E resp \in PredicateResponses : SyncPredicatesGet(resp)

NextPredicateSync ==
    SyncPredicatesGetAny \/ SyncPredicatesEntry \/ SyncPredicatesFinish \/ ResetPredicates

\* ---------------------------------------------------------------------------------
\* The pathpoints of the device and their catalog: smok/client/client.py,
\* smok/pathpoint/reparse.py, smok/threads/communicator.py. A path is the sequence
\* of its characters.
\* ---------------------------------------------------------------------------------

\* StorageLevel(HashableIntEnum)
PERMANENT == 0
TREND == 1
StorageLevel == {PERMANENT, TREND}

NativePaths == {<<"a">>, <<"b">>}
ReparsePaths == {<<"r", "f", "{", "a", "}">>,
                 <<"r", "f", "{", "a", "}", "+", "{", "b", "}">>,
                 <<"r", "f", "{", "b", "}", "*", "{", "b", "}">>}

\* parse(invocation), from character i on: the paths between braces, one per
\* occurrence, in order
RECURSIVE ParseFrom(_, _, _, _, _, _)
ParseFrom(invocation, i, state, nesting, c_var, paths) ==
    IF i > Len(invocation)
    THEN paths
    ELSE LET c == invocation[i]
         IN IF ~state
            THEN IF c = "{"
                 THEN ParseFrom(invocation, i + 1, TRUE, 1, c_var, paths)
                 ELSE ParseFrom(invocation, i + 1, FALSE, nesting, c_var, paths)
            ELSE IF c = "}" /\ nesting = 1
                 THEN ParseFrom(invocation, i + 1, FALSE, 0, <<>>, Append(paths, c_var))
                 ELSE ParseFrom(invocation, i + 1, TRUE,
                                IF c = "}" THEN nesting - 1
                                ELSE IF c = "{" THEN nesting + 1 ELSE nesting,
                                Append(c_var, c), paths)

Parse(invocation) == ParseFrom(invocation, 1, FALSE, 0, <<>>, <<>>)

\* ReparsePathpoint.__init__: self.expr, pps = parse(name[2:])
SlavePathpoints(name) == Parse(SubSeq(name, 3, Len(name)))

\* register_pathpoint(pp), on the map of the device
RegisterPathpoint(m, name, level) ==
    IF name[1] = "r"
    THEN m
    ELSE IF name \in DOMAIN m
         THEN m
         ELSE [n \in DOMAIN m \cup {name} |-> IF n = name THEN level ELSE m[n]]

\* get_pathpoint(path, storage_level), on the map of the device: a derived pathpoint
\* is built anew and obtains each of its constituents
RECURSIVE DevGetPathpoint(_, _, _)
RECURSIVE GetSlaves(_, _, _)
GetSlaves(m, paths, level) ==
    IF paths = <<>>
    THEN m
    ELSE GetSlaves(DevGetPathpoint(m, Head(paths), level), Tail(paths), level)

DevGetPathpoint(m, path, level) ==
    IF path[1] = "r"
    THEN GetSlaves(m, SlavePathpoints(path), level)
    ELSE RegisterPathpoint(m, path, level)

\* no operation on a derived pathpoint yet
NoReparseOperation ==
    [via |-> "none", path |-> <<>>, reads |-> <<>>, on_write_calls |-> 0, stored |-> 0,
     executor |-> "running"]

\* a user thread calls get_pathpoint(path, storage_level)
GetPathpoint(path, level) ==
    /\ UNCHANGED notPp
    /\ dev_pathpoints' = DevGetPathpoint(dev_pathpoints, path, level)
    /\ pp_dirty' = (pp_dirty \/ dev_pathpoints' # dev_pathpoints)
    /\ UNCHANGED <<catalog_resp, catalog_outcome, catalog_syncs, reparse_last>>

\* the entries of a response to PUT /v1/device/pathpoints
CatalogEntries ==
    [path : NativePaths \cup {<<"r", "f", "{", "a", "}">>}, storage_level : StorageLevel]

CatalogResponses ==
    {<<e>> : e \in CatalogEntries}
        \cup {r \in CatalogEntries \X CatalogEntries : r[1].path # r[2].path}

\* the for loop of sync_pathpoints over resp, from entry i on: provide_unknown_pathpoint
\* builds a Pathpoint of the level of the response, which is registered unless the
\* path is known; the level of that new object is the one compared with the response
RECURSIVE ApplyCatalog(_, _, _)
ApplyCatalog(m, resp, i) ==
    IF i > Len(resp)
    THEN m
    ELSE IF resp[i].path[1] = "r"
         THEN ApplyCatalog(m, resp, i + 1)
         ELSE ApplyCatalog(RegisterPathpoint(m, resp[i].path, resp[i].storage_level),
                           resp, i + 1)

\* CommunicatorThread.sync_pathpoints, called by the loop when the map is dirty;
\* ok: the request succeeded (else ResponseError after the retries)
SyncPathpoints(resp, ok) ==
    /\ UNCHANGED notPp
    /\ pp_dirty
    /\ catalog_syncs < MaxCatalogSyncs
    /\ catalog_syncs' = catalog_syncs + 1
    /\ IF ok
       THEN /\ dev_pathpoints' = ApplyCatalog(dev_pathpoints, resp, 1)
            /\ pp_dirty' = (dev_pathpoints' # dev_pathpoints)
            /\ catalog_resp' = resp
            /\ catalog_outcome' = "ok"
       ELSE /\ pp_dirty' = TRUE
            /\ catalog_resp' = <<>>
            /\ catalog_outcome' = "failed"
            /\ UNCHANGED dev_pathpoints
    /\ UNCHANGED reparse_last

\* a user thread calls get_pathpoint(path).write(value): ReparsePathpoint.write
\* returns an empty Section
ReparseWrite(path) ==
    /\ UNCHANGED notPp
    /\ dev_pathpoints' = DevGetPathpoint(dev_pathpoints, path, TREND)
    /\ pp_dirty' = (pp_dirty \/ dev_pathpoints' # dev_pathpoints)
    /\ reparse_last' = [NoReparseOperation EXCEPT !.via = "write()", !.path = path,
                           !.executor = reparse_last.executor]
    /\ UNCHANGED <<catalog_resp, catalog_outcome, catalog_syncs>>

\* a user thread calls get_pathpoint(path).read(): ReparsePathpoint.read returns the
\* sum of the Sections of slave.read(), a ReadOrder for each slave
ReparseRead(path) ==
    /\ UNCHANGED notPp
    /\ dev_pathpoints' = DevGetPathpoint(dev_pathpoints, path, TREND)
    /\ pp_dirty' = (pp_dirty \/ dev_pathpoints' # dev_pathpoints)
    /\ reparse_last' = [NoReparseOperation EXCEPT !.via = "read()", !.path = path,
                           !.reads = SlavePathpoints(path),
                           !.executor = reparse_last.executor]
    /\ UNCHANGED <<catalog_resp, catalog_outcome, catalog_syncs>>

\* process_orders on a WriteOrder that names a derived pathpoint: unless the order
\* is stale, ReparsePathpoint.on_write is called and raises ImpossibleError
ExecuteReparseWrite(path, is_valid) ==
    /\ UNCHANGED notPp
    /\ reparse_last.executor = "running"
    /\ dev_pathpoints' = DevGetPathpoint(dev_pathpoints, path, TREND)
    /\ pp_dirty' = (pp_dirty \/ dev_pathpoints' # dev_pathpoints)
    /\ reparse_last' = [NoReparseOperation EXCEPT !.via = "WriteOrder", !.path = path,
                           !.on_write_calls = IF is_valid THEN 1 ELSE 0,
                           !.executor = IF is_valid THEN "dead" ELSE "running"]
    /\ UNCHANGED <<catalog_resp, catalog_outcome, catalog_syncs>>

\* process_orders on a ReadOrder that names a derived pathpoint: can_read() holds,
\* ReparsePathpoint.on_read raises ImpossibleError; caught: the except Exception
\* clause catches it (ImpossibleError is a class of satella)
ExecuteReparseRead(path, caught) ==
    /\ UNCHANGED notPp
    /\ reparse_last.executor = "running"
    /\ dev_pathpoints' = DevGetPathpoint(dev_pathpoints, path, TREND)
    /\ pp_dirty' = (pp_dirty \/ dev_pathpoints' # dev_pathpoints)
    /\ reparse_last' = [NoReparseOperation EXCEPT !.via = "ReadOrder", !.path = path,
                           !.executor = IF caught THEN "running" ELSE "dead"]
    /\ UNCHANGED <<catalog_resp, catalog_outcome, catalog_syncs>>

GetPathpointAny ==
    \E path \in NativePaths \cup ReparsePaths, level \in StorageLevel :
        GetPathpoint(path, level)
SyncPathpointsAny == \E resp \in CatalogResponses, ok \in BOOLEAN : SyncPathpoints(resp, ok)
ReparseWriteAny == \E path \in ReparsePaths : ReparseWrite(path)
ReparseReadAny == \E path \in ReparsePaths : ReparseRead(path)
ExecuteReparseWriteAny ==
    \E path \in ReparsePaths, is_valid \in BOOLEAN : ExecuteReparseWrite(path, is_valid)
ExecuteReparseReadAny ==
    \E path \in ReparsePaths, caught \in BOOLEAN : ExecuteReparseRead(path, caught)

NextPathpoints ==
    \/ GetPathpointAny
    \/ SyncPathpointsAny
    \/ ReparseWriteAny
    \/ ReparseReadAny
    \/ ExecuteReparseWriteAny
    \/ ExecuteReparseReadAny

\* ---------------------------------------------------------------------------------
\* The readiness lock: smok/client/client.py, smok/threads/communicator.py
\* ---------------------------------------------------------------------------------

PREDICATE_SYNC_INTERVAL == 300

DeviceFlags ==
    [dont_obtain_orders : BOOLEAN, dont_do_pathpoints : BOOLEAN,
     dont_do_predicates : BOOLEAN, dont_do_baobs : BOOLEAN]

\* SMOKDevice.__init__: the executor and the communicator are created
HasCommunicator(f) ==
    \/ ~f.dont_obtain_orders
    \/ ~f.dont_do_predicates
    \/ ~f.dont_do_pathpoints
    \/ ~f.dont_do_baobs

\* SMOKDevice.__init__, as far as the lock goes: ready_lock is created and acquired,
\* and released at once if no communicator is created
DeviceInit(f) ==
    /\ UNCHANGED notReady
    /\ dev_flags = <<>>
    /\ dev_flags' = f
    /\ ready_lock' = IF HasCommunicator(f) THEN "init" ELSE "free"
    /\ ready_releases' = IF HasCommunicator(f) THEN 0 ELSE 1
    /\ UNCHANGED <<last_predicates_synced, comm_passes, waiter>>

\* a pass of CommunicatorThread.loop, as far as the lock goes; failed_at: the part of
\* the pass whose request raised ("before": one before sync_predicates, "after": one
\* after it)
CommunicatorLoop(failed_at) ==
    /\ UNCHANGED notReady
    /\ dev_flags # <<>>
    /\ HasCommunicator(dev_flags)
    /\ allow_sync
    /\ comm_passes.begun < MaxReadyPasses
    /\ LET due == baob_mono - last_predicates_synced > PREDICATE_SYNC_INTERVAL
           runs == ~dev_flags.dont_do_predicates /\ due /\ failed_at # "before"
           synced == runs /\ failed_at # "predicates"
       IN /\ IF synced /\ ~Truthy(last_predicates_synced)
             THEN /\ ready_lock' = "free"
                  /\ ready_releases' = ready_releases + 1
             ELSE UNCHANGED <<ready_lock, ready_releases>>
          /\ last_predicates_synced' = IF synced THEN baob_mono ELSE last_predicates_synced
          /\ comm_passes' =
                [begun |-> comm_passes.begun + 1,
                 ok |-> comm_passes.ok +
                           (IF failed_at = "none" \/ (failed_at = "predicates" /\ ~runs)
                            THEN 1 ELSE 0)]
    /\ UNCHANGED <<dev_flags, waiter>>

\* a user thread calls wait_until_synced() or get_sensor()
WaitCall(op) ==
    /\ UNCHANGED notReady
    /\ dev_flags # <<>>
    /\ waiter.pc = "idle"
    /\ waiter.returned < MaxWaits
    /\ waiter' = [waiter EXCEPT !.pc = "acquiring", !.op = op]
    /\ UNCHANGED <<dev_flags, ready_lock, ready_releases, last_predicates_synced,
                   comm_passes>>

\* ready_lock.acquire() of that call returns
WaitAcquire ==
    /\ UNCHANGED notReady
    /\ waiter.pc = "acquiring"
    /\ ready_lock = "free"
    /\ ready_lock' = "user"
    /\ waiter' = [waiter EXCEPT !.pc = "holding"]
    /\ UNCHANGED <<dev_flags, ready_releases, last_predicates_synced, comm_passes>>

\* ready_lock.release() of that call, and the call returns
WaitRelease ==
    /\ UNCHANGED notReady
    /\ waiter.pc = "holding"
    /\ ready_lock' = "free"
    /\ waiter' = [waiter EXCEPT !.pc = "idle", !.returned = @ + 1]
    /\ UNCHANGED <<dev_flags, ready_releases, last_predicates_synced, comm_passes>>

DeviceInitAny == \E f \in DeviceFlags : DeviceInit(f)
CommunicatorLoopAny ==
    \E failed_at \in {"none", "before", "predicates", "after"} : CommunicatorLoop(failed_at)
WaitCallAny == \E op \in {"wait_until_synced", "get_sensor"} : WaitCall(op)

NextReady ==
    \/ DeviceInitAny
    \/ CommunicatorLoopAny
    \/ WaitCallAny
    \/ WaitAcquire
    \/ WaitRelease
    \/ BaobTickAny

\* ---------------------------------------------------------------------------------
\* The write buffer of the NGTT socket: ngtt/uplink/connection.py,
\* ngtt/uplink/thread.py. A frame is written as two pieces, its header and its data;
\* a PING frame has no data.
\* ---------------------------------------------------------------------------------

\* STRUCT_LHH.pack(len(data), tid, header.value) followed by data
Packed(tid, header) ==
    IF header = "PING"
    THEN <<[tid |-> tid, piece |-> "header"]>>
    ELSE <<[tid |-> tid, piece |-> "header"], [tid |-> tid, piece |-> "data"]>>

\* del self.w_buffer[:data_sent]
DelPrefix(buf, data_sent) == SubSeq(buf, data_sent + 1, Len(buf))

\* time.monotonic() - last_read, against PING_INTERVAL_TIME and
\* INTERVAL_TIME_NO_RESPONSE_KILL
IdleTimes == <<"fresh", "ping_due", "kill_due">>

NoSelect == [rx |-> FALSE, wx |-> FALSE, sent |-> 0, passes |-> 0]

\* time passes with nothing read
IdleTick ==
    /\ UNCHANGED notWbuf
    /\ w_sock.connected
    /\ w_sock.idle < Len(IdleTimes)
    /\ w_sock' = [w_sock EXCEPT !.idle = @ + 1]
    /\ UNCHANGED <<w_buffer, last_select, w_frames>>

\* NGTTSocket.send_frame(tid, DATA_STREAM, data) called by a user thread; data_sent:
\* what socket.send returned (0: it raised SSLWantWriteError, nothing was sent)
SendFrame(data_sent) ==
    /\ UNCHANGED notWbuf
    /\ w_sock.connected
    /\ w_frames < MaxWFrames
    /\ w_frames' = w_frames + 1
    /\ IF IdleTimes[w_sock.idle] = "kill_due"
       THEN /\ w_sock' = [w_sock EXCEPT !.connected = FALSE]
            /\ UNCHANGED w_buffer
       ELSE LET buf == w_buffer \o Packed(w_frames + 1, "DATA_STREAM")
            IN /\ data_sent <= Len(buf)
               /\ w_buffer' = DelPrefix(buf, data_sent)
               /\ UNCHANGED w_sock
    /\ UNCHANGED last_select

\* NGTTSocket.try_ping on socket s with buffer buf; ping_sent: what socket.send of
\* the PING frame returned. The socket and the buffer afterwards, and the pieces sent
TryPingOn(s, buf, ping_sent) ==
    IF IdleTimes[s.idle] = "kill_due"
    THEN [sock |-> [s EXCEPT !.connected = FALSE], buf |-> buf, sent |-> 0]
    ELSE IF IdleTimes[s.idle] = "ping_due" /\ ~s.ping
         THEN LET b == buf \o Packed(0, "PING")
                  n == IF ping_sent <= Len(b) THEN ping_sent ELSE Len(b)
              IN [sock |-> [s EXCEPT !.ping = TRUE], buf |-> DelPrefix(b, n), sent |-> n]
         ELSE [sock |-> s, buf |-> buf, sent |-> 0]

\* a pass of NGTTConnection.inner_loop; readable, writable: what select finds of the
\* socket; data_sent: what socket.send of try_send returns, at least 1 on a writable
\* socket; is_ping: the frame received is the PING answer
InnerLoop(readable, writable, ping_sent, data_sent, is_ping) ==
    /\ UNCHANGED notWbuf
    /\ w_sock.connected
    /\ last_select.passes < MaxSelects
    /\ LET p == TryPingOn(w_sock, w_buffer, ping_sent)
           can_read == readable
           can_write == writable /\ p.buf # <<>>
           n == IF data_sent <= Len(p.buf) THEN data_sent ELSE Len(p.buf)
       IN IF ~p.sock.connected
          THEN /\ w_sock' = p.sock
               /\ UNCHANGED <<w_buffer, last_select>>
          ELSE IF ~can_read
               THEN /\ w_sock' = p.sock
                    /\ w_buffer' = p.buf
                    /\ last_select' = [rx |-> can_read, wx |-> can_write, sent |-> p.sent,
                                       passes |-> last_select.passes + 1]
               ELSE /\ w_buffer' = IF can_write THEN DelPrefix(p.buf, n) ELSE p.buf
                    /\ w_sock' = [p.sock EXCEPT !.idle = 1,
                                                !.ping = IF is_ping THEN FALSE ELSE @]
                    /\ last_select' = [rx |-> can_read, wx |-> can_write,
                                       sent |-> p.sent + (IF can_write THEN n ELSE 0),
                                       passes |-> last_select.passes + 1]
    /\ UNCHANGED w_frames

SendFrameAny == \E data_sent \in 0..MaxSent : SendFrame(data_sent)
InnerLoopAny ==
    \E readable \in BOOLEAN, writable \in BOOLEAN, ping_sent \in 0..MaxSent,
       data_sent \in 1..MaxSent, is_ping \in BOOLEAN :
        InnerLoop(readable, writable, ping_sent, data_sent, is_ping)

NextWbuf == IdleTick \/ SendFrameAny \/ InnerLoopAny

\* ---------------------------------------------------------------------------------
\* Macros: smok/macro/macro.py, smok/extras/macros_database/in_memory.py,
\* smok/threads/archives_and_macros/thread.py
\* ---------------------------------------------------------------------------------

MacroIds == {"m"}

\* the occurrences <<macro_id, timestamp>> that the cloud has scheduled
Occurrences40 == MacroIds \X (1..MaxOccurrences)

\* how POST /v1/device/macros/{id}/{ts} ends: "error" is a ResponseError that is
\* not a missing link
PostOutcomes == {"ok", "no_link", "error"}

\* the timestamps of lst in increasing order: sorted(occurrences_not_done)
SortedSeq(S) ==
    CHOOSE s \in [1..Cardinality(S) -> S] :
        /\ {s[i] : i \in 1..Cardinality(S)} = S
        /\ \A i \in 1..(Cardinality(S) - 1) : s[i] < s[i + 1]

\* Macro.__init__
Macro(macro_id, occurrences) ==
    [macro_id |-> macro_id, occurrences_not_done |-> SortedSeq(occurrences)]

\* Macro.should_execute at time t
ShouldExecute(macro, t) ==
    IF macro.occurrences_not_done = <<>>
    THEN FALSE
    ELSE t > macro.occurrences_not_done[1]

\* Macro.execute() of the macro at index k of the list, at time t, on the state st
\* of the database and of the Sections enqueued: every due timestamp is popped,
\* a Section is put on the order queue and notify_macro_executed is called, which
\* removes the macro from the list once it has no timestamp left
RECURSIVE MacroExecuteOn(_, _, _)
MacroExecuteOn(st, k, t) ==
    IF k > Len(st.macros) \/ ~ShouldExecute(st.macros[k], t)
    THEN st
    ELSE LET macro == st.macros[k]
             ts == macro.occurrences_not_done[1]
             popped == [macro EXCEPT !.occurrences_not_done = Tail(@)]
             occ == <<macro.macro_id, ts>>
         IN MacroExecuteOn(
                [macros |-> IF popped.occurrences_not_done = <<>>
                            THEN SubSeq(st.macros, 1, k - 1)
                                    \o SubSeq(st.macros, k + 1, Len(st.macros))
                            ELSE [st.macros EXCEPT ![k] = popped],
                 done |-> Append(st.done, occ),
                 fired |-> [st.fired EXCEPT ![occ] = @ + 1]],
                k, t)

\* the for loop of ArchivingAndMacroThread.loop over a copy of the done macros, from
\* entry i on: the entry is removed unless the POST failed for want of a link
RECURSIVE SyncDoneMacros(_, _, _, _)
SyncDoneMacros(st, entries, post, i) ==
    IF i > Len(entries)
    THEN st
    ELSE SyncDoneMacros(
            [done |-> IF post[i] = "no_link" THEN st.done ELSE ListRemove(st.done, entries[i]),
             completed |-> IF post[i] = "ok" THEN st.completed \cup {entries[i]}
                           ELSE st.completed],
            entries, post, i + 1)

\* time passes
MacroTick ==
    /\ UNCHANGED notMacro
    /\ macro_time < MaxMacroTime
    /\ macro_time' = macro_time + 1
    /\ UNCHANGED <<macros_to_execute, executions_to_sync, arch_thread, fired,
                   cloud_completed>>

\* InMemoryMacroDatabase.set_macros with the schedule as the cloud gives it: the
\* macro with its occurrences that the cloud has not marked as completed
SetMacros ==
    /\ UNCHANGED notMacro
    /\ arch_thread.sets < MaxSetMacros
    /\ arch_thread' = [arch_thread EXCEPT !.sets = @ + 1]
    /\ macros_to_execute' =
          LET pending(m) == {o[2] : o \in {x \in Occurrences40 \ cloud_completed : x[1] = m}}
              m == CHOOSE x \in MacroIds : TRUE
          IN IF pending(m) = {} THEN <<>> ELSE <<Macro(m, pending(m))>>
    /\ UNCHANGED <<executions_to_sync, macro_time, fired, cloud_completed>>

\* Macro.execute() called on the macro at index k of the list
MacroExecute(k) ==
    /\ UNCHANGED notMacro
    /\ k \in 1..Len(macros_to_execute)
    /\ ShouldExecute(macros_to_execute[k], macro_time)
    /\ LET st == MacroExecuteOn([macros |-> macros_to_execute, done |-> executions_to_sync,
                                 fired |-> fired], k, macro_time)
       IN /\ macros_to_execute' = st.macros
          /\ executions_to_sync' = st.done
          /\ fired' = st.fired
    /\ UNCHANGED <<macro_time, arch_thread, cloud_completed>>

\* a pass of ArchivingAndMacroThread.loop with macros enabled. refresh: the schedule
\* is due for an update, whose response is empty or not; Macro.from_json(macro) and
\* macro.execute(self.device) are calls with an argument too few and one too many:
\* TypeError ends the thread. post: how the POST of each done occurrence ends
ArchLoop(refresh, resp_empty, post) ==
    /\ UNCHANGED notMacro
    /\ arch_thread.state = "running"
    /\ arch_thread.passes < MaxArchPasses
    /\ allow_sync
    /\ DOMAIN post = 1..Len(executions_to_sync)
    /\ LET macros == IF refresh /\ resp_empty THEN <<>> ELSE macros_to_execute
           due == \E k \in 1..Len(macros) : ShouldExecute(macros[k], macro_time)
           st == SyncDoneMacros([done |-> executions_to_sync, completed |-> cloud_completed],
                                executions_to_sync, post, 1)
       IN IF refresh /\ ~resp_empty
          THEN /\ arch_thread' = [arch_thread EXCEPT !.state = "dead", !.passes = @ + 1]
               /\ UNCHANGED <<macros_to_execute, executions_to_sync, cloud_completed>>
          ELSE IF due
               THEN /\ arch_thread' = [arch_thread EXCEPT !.state = "dead", !.passes = @ + 1]
                    /\ macros_to_execute' = macros
                    /\ UNCHANGED <<executions_to_sync, cloud_completed>>
               ELSE /\ arch_thread' = [arch_thread EXCEPT !.passes = @ + 1]
                    /\ macros_to_execute' = macros
                    /\ executions_to_sync' = st.done
                    /\ cloud_completed' = st.completed
    /\ UNCHANGED <<macro_time, fired>>

MacroExecuteAny == \E k \in 1..Cardinality(MacroIds) : MacroExecute(k)
ArchLoopAny ==
    \E refresh \in BOOLEAN, resp_empty \in BOOLEAN,
       post \in UNION {[1..n -> PostOutcomes] : n \in 0..MaxOccurrences} :
        ArchLoop(refresh, resp_empty, post)

NextMacros == MacroTick \/ SetMacros \/ MacroExecuteAny \/ ArchLoopAny

\* the state after SMOKDevice.__init__: empty order queue and stores, both threads
\* at the top of their loops
Init ==
    /\ nCreated = 0
    /\ section = <<>>
    /\ order = <<>>
    /\ futDone = {}
    /\ queue = <<>>
    /\ pc = "idle"
    /\ cur = 0
    /\ otc = <<>>
    /\ terminating = FALSE
    /\ hfut = <<>>
    /\ invoked = <<>>
    /\ started = {}
    /\ batchOf = <<>>
    /\ okThenDispatched = FALSE
    /\ ngtt_orders = <<>>
    /\ pathpoints = <<>>
    /\ current_timestamp = [p \in Pathpoints |-> NoTimestamp]
    /\ sw_events = {}
    /\ events_to_sync = <<>>
    /\ commPc = "sync_data"
    /\ dataSync = NoData
    /\ swSync = {}
    /\ evtSync = 0
    /\ tries = 0
    /\ unsettled = [data |-> 0, sw |-> 0, evt |-> 0]
    /\ lastOutcome = "none"
    /\ notified = "none"
    /\ nacked = <<>>
    /\ above_ack = <<>>
    /\ connected = FALSE
    /\ id_assigner = {}
    /\ ping_id = NoTid
    /\ currently_running_ops = <<>>
    /\ op_id_to_op = <<>>
    /\ futures = <<>>
    /\ awaiting = {}
    /\ call = NoCall
    /\ uplink = "running"
    /\ echoed = FALSE
    /\ wire = <<>>
    /\ sent = <<>>
    /\ buffer = <<>>
    /\ returned = <<>>
    /\ rx = "ok"
    /\ codec = NoCodec
    /\ now = 1
    /\ pathpoint = NoPathpoint
    /\ pp_values = <<>>
    /\ read_futures = 0
    /\ write_order = NoWriteOrder
    /\ executor = "running"
    /\ on_read_calls = <<>>
    /\ on_write_calls = {}
    /\ skipped = {}
    /\ dispatched = [reads |-> 0, writes |-> 0, sets |-> 0]
    /\ allow_sync = TRUE
    /\ log_queue = <<>>
    /\ issued = 0
    /\ holder = 0
    /\ emits = 0
    /\ log_pc = "get"
    /\ log_terminating = FALSE
    /\ loops = 0
    /\ dev_closed = FALSE
    /\ close_pc = "open"
    /\ workers = [w \in WorkerNames |-> "running"]
    /\ worker_terminating = FALSE
    /\ device_state = [order_queue |-> 0, events |-> 0, pathpoints |-> 0, sensor_writes |-> 0]
    /\ last_call = NoCallYet
    /\ op_calls = 0
    /\ predicate = NoPredicate
    /\ localtime = <<1, 9, 0>>
    /\ evt_events = 0
    /\ evt_returned = "None"
    /\ opened = 0
    /\ event_objs = <<>>
    /\ evt_pending = <<>>
    /\ evt_sent = <<>>
    /\ uuids_issued = 0
    /\ evt_passes = 0
    /\ baob_mono = 1
    /\ last_baob_synced = 0
    /\ baob_passes = 0
    /\ baob_hooks = 0
    /\ baob_completed = 0
    /\ baob_ticks = 0
    /\ local_preds = {}
    /\ psync_pc = "idle"
    /\ pred_resp = <<>>
    /\ pred_pos = 1
    /\ predicates_found = {}
    /\ offline_calls = NoOfflineCalls
    /\ preds_before = {}
    /\ psync_passes = 0
    /\ pred_resets = 0
    /\ dev_pathpoints = <<>>
    /\ pp_dirty = FALSE
    /\ catalog_resp = <<>>
    /\ catalog_outcome = "none"
    /\ catalog_syncs = 0
    /\ reparse_last = NoReparseOperation
    /\ dev_flags = <<>>
    /\ ready_lock = "init"
    /\ ready_releases = 0
    /\ last_predicates_synced = 0
    /\ comm_passes = [begun |-> 0, ok |-> 0]
    /\ waiter = [pc |-> "idle", op |-> "none", returned |-> 0]
    /\ w_buffer = <<>>
    /\ w_sock = [connected |-> TRUE, idle |-> 1, ping |-> FALSE]
    /\ last_select = NoSelect
    /\ w_frames = 0
    /\ macros_to_execute = <<>>
    /\ executions_to_sync = <<>>
    /\ macro_time = 0
    /\ arch_thread = [state |-> "running", passes |-> 0, sets |-> 0]
    /\ fired = [o \in Occurrences40 |-> 0]
    /\ cloud_completed = {}

vars == <<execVars, syncVars, obsVars, otherVars>>

NextExec == ExecuteAny \/ CancelAny \/ Loop \/ Collect \/ CompleteAny \/ Terminate \/ Stop

SpecExec == Init /\ [][NextExec]_vars

\* The executor without SMOKDevice.close: its thread runs whenever it can, and every
\* handler Future completes
NextExecLive == ExecuteAny \/ CancelAny \/ Loop \/ Collect \/ CompleteAny

LiveSpecExec ==
    /\ Init
    /\ [][NextExecLive]_vars
    /\ WF_vars(Loop)
    /\ WF_vars(Collect)
    /\ WF_vars(CompleteAny)

NextSync ==
    \/ OnNewDataAny \/ SetNewValueAny \/ AddSwAny \/ AddEventAny
    \/ SyncDataGet \/ SyncDataFinishAny
    \/ SyncSensorWritesGet \/ SyncSensorWritesFinishAny
    \/ SyncEventsGet \/ SyncEventsFinishAny

SpecSync == Init /\ [][NextSync]_vars

\* The data-point store and the communicator with nothing but samples to synchronize
NextData ==
    \/ OnNewDataAny \/ SetNewValueAny
    \/ SyncDataGet \/ SyncDataObservedAny
    \/ SyncSensorWritesGet \/ SyncEventsGet

SpecData == Init /\ [][NextData]_vars
SpecLink == Init /\ [][NextLink]_vars
SpecCodec == Init /\ [][NextCodec]_vars
SpecRecv == Init /\ [][NextRecv]_vars
SpecOrders == Init /\ [][NextOrders]_vars
SpecReads == Init /\ [][NextReads]_vars
SpecWrites == Init /\ [][NextWrites]_vars
SpecLog == Init /\ [][NextLog]_vars
SpecClose == Init /\ [][NextClose]_vars
SpecCalls == Init /\ [][NextCalls]_vars

\* the threads of the device keep running: every step of the log publisher and of
\* the other workers that can be taken is taken, every wait of a worker ends, and
\* the joins of close() return once the threads have ended
LiveSpecClose ==
    /\ Init /\ [][NextClose]_vars
    /\ WF_vars(PublisherGet)
    /\ WF_vars(PublisherSleep)
    /\ WF_vars(PublisherHold)
    /\ WF_vars(PublisherSendAny)
    /\ WF_vars(PublisherExit)
    /\ WF_vars(WorkerResumesAny)
    /\ \A w \in WorkerNames : WF_vars(WorkerStops(w))
    /\ WF_vars(CloseReturns)
SpecPredicate == Init /\ [][NextPredicate]_vars
SpecMacros == Init /\ [][NextMacros]_vars
SpecWbuf == Init /\ [][NextWbuf]_vars
SpecReady == Init /\ [][NextReady]_vars
SpecPathpoints == Init /\ [][NextPathpoints]_vars
SpecPredicateSync == Init /\ [][NextPredicateSync]_vars
SpecBaobs == Init /\ [][NextBaobs]_vars
SpecEvents == Init /\ [][NextEvents]_vars

(***************************************************************************)
(* Properties of the order executor                                        *)
(***************************************************************************)

\* C1: a CANNOT_JOIN section is started (its orders are handed to process_orders)
\* only after the future of every section enqueued before it has been resolved.
C1_CannotJoinStartsAfterEarlierResolved ==
    \A s \in started :
        section[s].disposition = CANNOT_JOIN => \A t \in 1..(s - 1) : t \in futDone

\* C1 happens: a CANNOT_JOIN section that was enqueued after another one is executing
C1_Witness ==
    /\ pc = "waiting"
    /\ cur > 1
    /\ cur \in started
    /\ section[cur].disposition = CANNOT_JOIN

\* C2: in the step that starts a CANNOT_JOIN section no Future returned by a read or
\* write handler on behalf of another (earlier) section is still pending.
C2_NoPendingHandlerFutureAtCannotJoinStart ==
    [][\A s \in started' \ started :
          section'[s].disposition = CANNOT_JOIN =>
              \A o \in DOMAIN hfut' : o[1] # s => hfut'[o] # "pending"]_vars

\* C3, the state part: a batch that holds a CANNOT_JOIN section holds nothing else,
\* and the futures of the members of a batch are resolved together.
C3Batch ==
    \A s \in DOMAIN batchOf :
        /\ (\E m \in batchOf[s] : section[m].disposition = CANNOT_JOIN) => batchOf[s] = {s}
        /\ \A m \in batchOf[s] : (m \in futDone) <=> (s \in futDone)

\* C3, the step part: the step that dequeues the head section concatenates it with
\* the next queued section, orders in queue order, exactly if both are JOINABLE.
C3Coalesce ==
    (pc = "idle" /\ queue # <<>> /\ Len(queue') < Len(queue)) =>
        LET head == Head(queue)
        IN IF /\ Len(queue) >= 2
              /\ section[head].disposition = JOINABLE
              /\ section[queue[2]].disposition = JOINABLE
           THEN /\ queue' = Tail(Tail(queue))
                /\ section'[head].orders = section[head].orders \o section[queue[2]].orders
                /\ batchOf'[head] = {head, queue[2]}
           ELSE /\ queue' = Tail(queue)
                /\ section'[head].orders = section[head].orders
                /\ batchOf'[head] = {head}

\* C3: the orders of a CANNOT_JOIN section are never executed in one batch with those
\* of another section; a JOINABLE head and a JOINABLE next section are concatenated in
\* queue order and their futures are resolved together.
C3_CoalescingRule == [][C3Coalesce /\ C3Batch']_vars

\* C3 happens: two sections were executed as one batch and both futures are resolved
C3_Witness ==
    \E s \in DOMAIN batchOf :
        /\ Cardinality(batchOf[s]) = 2
        /\ batchOf[s] \subseteq futDone
        /\ Len(section[s].orders) > 2

\* C4: no order of a section that was cancelled while it waited in the queue is
\* dispatched to a handler.
C4_CancelledSectionNotDispatched ==
    \A o \in DOMAIN invoked : invoked[o] > 0 => ~section[o[1]].cancelled

\* C5: every section put on the order queue eventually has its future resolved.
C5_EverySectionResolved ==
    \A s \in 1..MaxSections : (nCreated >= s) ~> (s \in futDone)

\* C6: a write order is dispatched at most 10 times (FORCE) or once (ADVISE); its
\* counter drops by one per failure and never below zero; it waits for a handler
\* Future only while the counter is positive; no order is dispatched again after
\* its Future succeeded.
C6_WriteRetryPolicy ==
    /\ ~okThenDispatched
    /\ \A o \in DOMAIN order :
          order[o].kind = "write" =>
              LET limit == IF order[o].advise = FORCE THEN 10 ELSE 1
              IN /\ invoked[o] <= limit
                 /\ order[o].repeat_count >= 0
                 /\ invoked[o] = 0 => order[o].repeat_count = limit
                 /\ invoked[o] > 0 => /\ invoked[o] + order[o].repeat_count >= limit
                                      /\ invoked[o] + order[o].repeat_count <= limit + 1
                 /\ (\E k \in 1..Len(otc) : otc[k][1] = o) => order[o].repeat_count > 0

\* C6 happens: a FORCE write failed ten times and an ADVISE write failed once, and
\* the executor gave both up
C6_Witness ==
    /\ \E o \in DOMAIN order :
          /\ order[o].kind = "write" /\ order[o].advise = FORCE
          /\ invoked[o] = 10 /\ order[o].repeat_count = 0
    /\ \E o \in DOMAIN order :
          /\ order[o].kind = "write" /\ order[o].advise = ADVISE
          /\ invoked[o] = 1 /\ order[o].repeat_count = 0

\* C7: a read order carries a counter of 20 when FORCE and of 3 when ADVISE until
\* it fails.
C7_ReadCounterByAdvise ==
    \A o \in DOMAIN order :
        (order[o].kind = "read" /\ invoked[o] = 0) =>
            order[o].repeat_count = (IF order[o].advise = FORCE THEN 20 ELSE 3)

(***************************************************************************)
(* Properties of the stores and of the communicator                        *)
(***************************************************************************)

\* C8: for every pathpoint the samples the store holds have, in insertion order,
\* strictly increasing timestamps.
C8_StoreStrictlyIncreasing ==
    \A p \in DOMAIN pathpoints :
        \A i, j \in 1..Len(pathpoints[p]) : i < j => pathpoints[p][i] < pathpoints[p][j]

\* C9: in a step of sync_data that settles the snapshot and leaves the store as
\* acknowledge makes it, no sample of a pathpoint of the snapshot with a timestamp
\* up to the highest one of that pathpoint in the snapshot remains in the store.
C9_AcknowledgedSamplesAbsent ==
    [][(/\ commPc = "data_held"
        /\ ~dataSync'.held
        /\ pathpoints' = Acknowledge(pathpoints, dataSync.data, DOMAIN dataSync.data)) =>
           \A p \in DOMAIN dataSync.data \cap DOMAIN pathpoints' :
               \A i \in 1..Len(pathpoints'[p]) :
                   pathpoints'[p][i] > MaxTimestamp(dataSync.data[p])]_vars

C11_ClientsFaultDropsSnapshot ==
    [][SyncDataObserved("clients_fault") =>
          /\ ~dataSync'.held
          /\ unsettled'.data = 0
          /\ \A p \in DOMAIN dataSync.data :
                \/ p \notin DOMAIN pathpoints'
                \/ \E k \in (Len(dataSync.data[p]) + 1)..Len(pathpoints[p]) :
                       pathpoints'[p] = SubSeq(pathpoints[p], k, Len(pathpoints[p]))]_vars

\* C12: a step of sync_data whose sync_pathpoints failed with a SyncError of no link
\* calls on_failed_sync, negatively acknowledges the snapshot and leaves the store
\* as it was; the snapshot the next pass of sync_data obtains starts, for every
\* pathpoint of the refused snapshot, with the samples of the refused snapshot.
C12_NoLinkKeepsSamples ==
    /\ [][SyncDataObserved("no_link") =>
             /\ notified' = "on_failed_sync"
             /\ nacked' = dataSync.data
             /\ ~dataSync'.held
             /\ pathpoints' = pathpoints]_vars
    /\ [](commPc = "data_held" /\ lastOutcome = "no_link" =>
             \A p \in DOMAIN nacked :
                 /\ p \in DOMAIN dataSync.data
                 /\ Len(nacked[p]) <= Len(dataSync.data[p])
                 /\ SubSeq(dataSync.data[p], 1, Len(nacked[p])) = nacked[p])

\* the pass after a no-link failure holds a snapshot of the refused samples and of
\* one more that arrived in between
C12_Witness ==
    /\ commPc = "data_held"
    /\ lastOutcome = "no_link"
    /\ notified = "on_failed_sync"
    /\ \E p \in DOMAIN nacked : Len(dataSync.data[p]) > Len(nacked[p])

(***************************************************************************)
(* Properties of the NGTT uplink                                           *)
(***************************************************************************)

\* C13: on one connection no two frames that await settlement, DATA_STREAM frames of
\* sync_pathpoints or of a reconnect and the PING, carry the same tid.
C13_DistinctTids ==
    \A f, g \in awaiting : f # g => f.tid # g.tid

\* C14: in a step that closes the connection, by cleanup or by close, the future of
\* every DATA_STREAM frame that awaited settlement on it stops being pending.
C14_CloseResolvesFutures ==
    [][connected /\ ~connected' =>
          \A f \in awaiting : f.type = "DATA_STREAM" => futures'[f.op] # "pending"]_vars

\* C15: in a step of inner_loop in which DATA_STREAM_CONFIRM or DATA_STREAM_REJECT
\* settles the transaction of tid t, t goes back to the allocator of the connection.
C15_SettledTidIsFreed ==
    [][\A t \in Tids :
          (/\ connected /\ connected'
           /\ t \in DOMAIN op_id_to_op
           /\ t \notin DOMAIN op_id_to_op') => t \notin id_assigner']_vars

\* C16: a step in which sync_pathpoints or try_ping finds no tid free closes the
\* connection, so that the next connection starts from an empty allocator.
C16_ExhaustionClosesConnection ==
    [][SyncPathpointsExhausted \/ TryPingExhausted =>
          ~connected' /\ id_assigner' = {}]_vars

C18_FramesInOrderOnce ==
    /\ Len(returned) <= Len(sent)
    /\ returned = SubSeq(sent, 1, Len(returned))
    /\ rx = "ok" => buffer \o wire = Concat(SubSeq(sent, Len(returned) + 1, Len(sent)))

\* C19: for the frame f that was encoded, from_bytes(bytes(f)) is a frame that
\* encodes to the same bytes and whose len is the number of bytes, from_buffer of all
\* the bytes is that frame with all the bytes consumed, and from_buffer of a strict
\* prefix is None.
C19_RoundTrip ==
    codec # NoCodec =>
        /\ codec.from_bytes.raised = "none"
        /\ Len(codec.from_bytes.frame) = 1
        /\ Bytes(codec.from_bytes.frame[1]) = codec.bytes
        /\ FrameLen(codec.from_bytes.frame[1]) = Len(codec.bytes)
        /\ codec.from_buffer.raised = "none"
        /\ IF codec.cut < Len(codec.bytes)
           THEN codec.from_buffer.frame = <<>>
           ELSE /\ codec.from_buffer.frame = codec.from_bytes.frame
                /\ codec.from_buffer.consumed = Len(codec.bytes)

(***************************************************************************)
(* Properties of the orders that arrive over NGTT                          *)
(***************************************************************************)

ReadReports(x) ==
    \/ CanRead(pathpoint, now) /\ DispatchRead("raise", x)
    \/ CompleteRead("raise", x)

\* the failure with this reason is the latest sample and get_current_value raises it
FailureIsLatest(values, reason) ==
    /\ values # <<>>
    /\ values[Len(values)].key = "error_code"
    /\ values[Len(values)].error_code = reason
    /\ GetCurrentValue(values).raised = "OperationFailedError"
    /\ GetCurrentValue(values).reason = reason

\* every stored sample of the pathpoint is older than t
AllOlder(values, t) == \A k \in DOMAIN values : values[k].timestamp < t

C22_NotReadDropped ==
    [][ReadReports(NotReadedError) =>
          /\ pp_values' = pp_values
          /\ pathpoint'.current_timestamp = pathpoint.current_timestamp
          /\ pathpoint'.current_value = pathpoint.current_value
          /\ executor' = "running"]_vars

\* C23: with read_no_often_than = d, two read orders dispatched less than d apart
\* cause at most one invocation of on_read: any two invocations are d or more apart.
C23_ThrottledReads ==
    pathpoint.read_no_often_than # None =>
        \A i, j \in DOMAIN on_read_calls :
            i < j => on_read_calls[j] - on_read_calls[i] >= pathpoint.read_no_often_than

\* C24: on_write is never invoked for a write whose stale_after is in the past at
\* that dispatch, on the first pass and on every retry pass, and a write without
\* stale_after is never skipped as stale.
C24_StaleWriteNeverInvoked ==
    /\ \A c \in on_write_calls : ~(c.stale_after # None /\ c.stale_after < c.at)
    /\ None \notin skipped

C24_Witness ==
    /\ write_order.state = "done"
    /\ write_order.stale_after \in skipped
    /\ write_order.repeat_count < WriteRepeatCount(write_order.advise)
    /\ \E c \in on_write_calls : c.stale_after = write_order.stale_after

\* C25: after Write(p, v, ADVISE) whose handler reports success the store holds one
\* sample of p, with value v, and the next sync snapshot contains it.
C25_WrittenValueStored ==
    [][(CompleteWrite("ok") /\ write_order.advise = ADVISE) =>
          /\ Len(pp_values') = 1
          /\ pp_values'[1].key = "value"
          /\ pp_values'[1].value = write_order.value
          /\ GetDataToSync(pp_values') = pp_values']_vars

(***************************************************************************)
(* Properties of the log queue                                             *)
(***************************************************************************)
\* C26: while allow_sync is False, whatever the interleaving of the emitting
\* threads and of the log publisher thread, the log queue never holds more than
\* MAX_LOG_BUFFER_SIZE records.
C26_LogQueueBounded == ~allow_sync => QSize(log_queue) <= MAX_LOG_BUFFER_SIZE

\* the queue is full while sync is disallowed and a record found it full
C26_Witness ==
    /\ ~allow_sync
    /\ QSize(log_queue) = MAX_LOG_BUFFER_SIZE
    /\ issued > MAX_LOG_BUFFER_SIZE
    /\ holder = 0

\* C27: while allow_sync is False and the log queue is full, a call of emit ends
\* with the new record as the newest of the queue and the oldest queued record
\* discarded.
C27_NewestReplacesOldest ==
    [][\A e \in Emitters :
          (~allow_sync /\ QSize(log_queue) = MAX_LOG_BUFFER_SIZE /\ EmitTest(e))
          => \/ holder' = e
             \/ /\ Newest(log_queue') = issued'
                /\ Oldest(log_queue') > Oldest(log_queue)]_vars

(***************************************************************************)
(* Properties of close() and of the public operations of a closed device   *)
(***************************************************************************)
\* C28: after close() is called every worker thread (order executor, communicator,
\* log publisher, archives and macros) sees its termination flag and ends, so that
\* close() returns, in whatever state the threads were.
C28_CloseReturns == dev_closed ~> (close_pc = "returned")

\* C29: once the device is closed, every public operation (execute, get_pathpoint,
\* register_pathpoint, open_event, get_baob, get_device_info, wait_until_synced
\* and the others) raises RuntimeError and leaves the order queue and the stores
\* as they were.
C29_ClosedDeviceRaises ==
    [][\A op \in PublicOperations :
          (dev_closed /\ Call(op))
          => /\ last_call'.raised = "RuntimeError"
             /\ device_state' = device_state]_vars

(***************************************************************************)
(* Properties of the silencing of a predicate                              *)
(***************************************************************************)
\* t lies inside the weekly window from start to stop, also when the window runs
\* over the end of the week (start after stop)
InWindow(period, t) ==
    IF TupleLeq(period.start, period.stop)
    THEN TupleLeq(period.start, t) /\ TupleLeq(t, period.stop)
    ELSE TupleLeq(period.start, t) \/ TupleLeq(t, period.stop)

\* C30: for every predicate and every local time t, open_event returns no event
\* and adds nothing to the event store if t lies inside one of the silencing
\* windows of the predicate, whether or not the start of the window precedes its
\* stop within the week, and creates and stores exactly one event if t lies in no
\* window.
C30_SilencedInsideWindow ==
    [][OpenEvent
       => IF \E k \in DOMAIN predicate.silencing : InWindow(predicate.silencing[k], localtime)
          THEN evt_returned' = "None" /\ evt_events' = evt_events
          ELSE evt_returned' = "Event" /\ evt_events' = evt_events + 1]_vars

(***************************************************************************)
(* Properties of the acknowledgement of events                             *)
(***************************************************************************)
\* event e is in the list l
InList(l, e) == \E k \in DOMAIN l : l[k] = e

\* C31: when a request of n events is acknowledged with n UUIDs of the server,
\* every event of the request that lacked a server id has the UUID of a position it
\* was sent at, and every event that was sent closed is no longer in the list of
\* events to synchronize.
C31_AckAssignsAndRemoves ==
    [][EvAcknowledge
       => \A k \in DOMAIN evt_sent :
            LET e == evt_sent[k].event
            IN /\ event_objs[e].uuid = None
                  => \E j \in DOMAIN evt_sent :
                        /\ evt_sent[j].event = e
                        /\ event_objs'[e].uuid = ServerUuid(uuids_issued, j)
               /\ evt_sent[k].closed => ~InList(evt_pending', e)]_vars

(***************************************************************************)
(* Properties of the synchronization of the BAOBs                          *)
(***************************************************************************)
\* C32: on_baob_updated is called once for every key downloaded in a pass other than
\* the first pass ever made (a pass before any pass has completed), also when the
\* pass was forced by a baob-updated or baob-created sysctl or follows a local
\* write, and is never called for a download of the first pass.
C32_HookOnLaterDownloads ==
    [][\A n_download \in 0..MaxDownloads, ok \in BOOLEAN :
          SyncBaob(n_download, ok)
          => baob_hooks' = baob_hooks + (IF baob_completed = 0 THEN 0 ELSE n_download)]_vars

(***************************************************************************)
(* Properties of the synchronization of the predicates                     *)
(***************************************************************************)
\* C33: after every successful pass of sync_predicates the ids of the local
\* predicate instances are the ids the server reported as online, and every
\* instance that was there when the pass began and is not reported online was
\* removed after exactly one call of its on_offline.
C33_LocalPredicatesAreOnline ==
    [][SyncPredicatesFinish
       => /\ local_preds' = OnlineIn(pred_resp)
          /\ \A i \in PredicateIds :
                offline_calls'[i] = IF i \in preds_before \ OnlineIn(pred_resp) THEN 1 ELSE 0]_vars

\* C34: after a successful sync of the pathpoint catalog, every registered pathpoint
\* that is not derived and that the response names has the storage level that the
\* response gives for it
C34_CatalogLevelsApplied ==
    [][(catalog_syncs' = catalog_syncs + 1 /\ catalog_outcome' = "ok")
       => \A i \in 1..Len(catalog_resp') :
             (catalog_resp'[i].path[1] # "r" /\ catalog_resp'[i].path \in DOMAIN dev_pathpoints')
                => dev_pathpoints'[catalog_resp'[i].path] = catalog_resp'[i].storage_level]_vars

\* how often path p occurs in the list l
RECURSIVE Occurrences(_, _)
Occurrences(l, p) ==
    IF l = <<>> THEN 0 ELSE (IF Head(l) = p THEN 1 ELSE 0) + Occurrences(Tail(l), p)

\* C35: writing a derived pathpoint, by write() or by a WriteOrder, calls no handler,
\* stores no sample and does not fail the executor; reading it, by read() or by a
\* ReadOrder, reads each of its constituents exactly once
C35_ReparseWriteNoOpReadOnce ==
    /\ reparse_last.via \in {"write()", "WriteOrder"}
          => /\ reparse_last.reads = <<>>
             /\ reparse_last.on_write_calls = 0
             /\ reparse_last.stored = 0
             /\ reparse_last.executor = "running"
    /\ reparse_last.via \in {"read()", "ReadOrder"}
          => \A p \in NativePaths :
                Occurrences(reparse_last.reads, p) =
                    IF Occurrences(SlavePathpoints(reparse_last.path), p) > 0 THEN 1 ELSE 0

\* C36: whatever the dont_* flags are, once the communicator has completed a
\* successful pass the readiness lock is no longer held by __init__, so that
\* wait_until_synced() and get_sensor() return; with no communicator it is free from
\* the start; and it is released exactly once
C36_ReadyAfterFirstPass ==
    dev_flags # <<>>
       => /\ ~HasCommunicator(dev_flags) => ready_lock # "init" /\ ready_releases = 1
          /\ comm_passes.ok > 0 => ready_lock # "init" /\ ready_releases = 1
          /\ ready_releases <= 1

\* C37: a pass of the uplink loop that finds the socket writable while bytes are
\* left in the write buffer transmits some of them, also when the socket is not
\* readable
C37_WritableBufferIsDrained ==
    [][(last_select'.passes = last_select.passes + 1 /\ last_select'.wx)
          => last_select'.sent > 0]_vars

\* C38: the samples that were put into the store between the making of a snapshot
\* and its acknowledge, with timestamps above the highest of the snapshot for their
\* pathpoint, are in the store after the acknowledge and in the next snapshot
C38_NoSampleLostToAck ==
    \A p \in DOMAIN above_ack : \A ts \in Timestamps :
        Occurrences(above_ack[p], ts) > 0
           => /\ p \in DOMAIN pathpoints
              /\ Occurrences(pathpoints[p], ts) >= Occurrences(above_ack[p], ts)
              /\ dataSync.held
                    => /\ p \in DOMAIN dataSync.data
                       /\ Occurrences(dataSync.data[p], ts) >= Occurrences(above_ack[p], ts)

C38_Witness ==
    /\ dataSync.held
    /\ \E p \in DOMAIN above_ack : above_ack[p] # <<>>

\* C39: a call of sync_pathpoints that raises ConnectionFailed leaves its operation
\* out of currently_running_ops, the operations sent again after a reconnection:
\* only operations whose Future was returned to the caller are kept there
C39_FailedBatchNotRetained ==
    [][(call.tid # NoTid /\ call'.raised = "ConnectionFailed")
          => \A i \in 1..Len(currently_running_ops') : currently_running_ops'[i] # call.op]_vars

\* the occurrence o is in the list l
InSeq(l, o) == \E i \in 1..Len(l) : l[i] = o

\* C40: every occurrence <<macro_id, timestamp>> fires at most once: a pass of the
\* thread that finds it due takes its timestamp from the pending list of the macro
\* and fires it, and it leaves the done-to-sync list only when its confirmation POST
\* has succeeded
C40_OccurrenceFiresOnce ==
    /\ [](\A o \in Occurrences40 : fired[o] <= 1)
    /\ [][arch_thread'.passes = arch_thread.passes + 1
             => \A k \in 1..Len(macros_to_execute') :
                   ~ShouldExecute(macros_to_execute'[k], macro_time)]_vars
    /\ [][\A o \in Occurrences40 :
             (InSeq(executions_to_sync, o) /\ ~InSeq(executions_to_sync', o))
                => o \in cloud_completed']_vars

====
